---------------------------- MODULE Spec2Model ----------------------------
(***************************************************************************)
(* Session / connection orchestration core of the meeting assistant:       *)
(*   - FirefliesService (services/fireflies_service.py): Socket.IO         *)
(*     connector with reconnect chain, polling fallback, chunk dedup and   *)
(*     segment numbering;                                                  *)
(*   - TranscriptionService (services/transcription_service.py): the cloud *)
(*     sequencer;                                                          *)
(*   - MeetingManager (services/meeting_manager.py): session registry,     *)
(*     subscriber list, broadcast and stop.                                *)
(* Every coroutine is modelled by its position (pc) between two awaits:    *)
(* one action runs the code from one suspension point to the next.         *)
(***************************************************************************)
EXTENDS Integers, Sequences, FiniteSets, TLC

(***************************************************************************)
(* Bounds of the model.                                                    *)
(***************************************************************************)
MaxIdx == 1            \* sentence indices / underlying fragments are 0..MaxIdx
MaxSegments == 2       \* segments one sequencer emits
MaxPollLen == 2        \* sentences in one polled list
MaxHandles == 2        \* subscriber handles (WebSocket connections)
MaxBroadcasts == 2     \* _on_transcript coroutines in flight at once
MaxEvents == 2         \* segments the manager is handed
MaxCommands == 2       \* commands sent to process_command
MaxCloses == 2         \* disconnect() calls of the owner
MaxPollIdx == 2        \* sentence indices a poll returns: 0..MaxPollIdx
MaxEmits == 3          \* segments emitted past a full rolling buffer
MaxLoops == 2
MaxPolls == 3
MaxStarts == 3
MaxActive == 2

(***************************************************************************)
(* Program constants.                                                      *)
(***************************************************************************)
max_reconnect_attempts == 3
max_buffer_size == 50
ContextWindow == 5
dg_max_buffer_size == 10

None == "None"
Frags == 0..MaxIdx
TextOf(k) == <<"s0", "s1", "s2", "s3", "s4">>[k + 1]
ChunkOf(k) == <<"c0", "c1", "c2", "c3", "c4">>[k + 1]
TranscriptIds == {"t1"}

\* Python truthiness of an optional string: None and "" are falsy.
Truthy(s) == s \notin {None, ""}

\* A text is a body with or without surrounding blanks; str.strip() removes
\* the blanks, and `not text` holds of the empty string only.
RawTexts == [body : {""} \cup {TextOf(k) : k \in Frags}, pad : BOOLEAN]
Strip(raw) == [raw EXCEPT !.pad = FALSE]
Empty(text) == text.body = "" /\ ~text.pad

VARIABLES
  sio,                      \* self.sio: "none" | "client"
  transport,                \* the current client's transport: "down" | "up" | "failed"
  is_connected,
  is_authenticated,
  fireflies_transcript_id,
  connection_mode,
  polling_task,             \* self._polling_task: "none" | "task"
  last_sentence_index,
  segment_number,
  transcript_buffer,
  processed_chunks,
  reconnect_attempts,
  connPc,                   \* position of connect() / _handle_reconnect()
  connArg,                  \* transcript id passed to connect()
  pollPc,                   \* position of _polling_loop()
  discPc,                   \* position of each disconnect() caller
  emitted,                  \* segments passed to on_transcript, in order
  closeCalled,              \* disconnect() has been entered
  closes,                   \* the connector as each disconnect() of the owner
                            \* left it on return
  afterClose,               \* what the connector did after that
  failRun,                  \* consecutive failed primary connection attempts
  authHandled,              \* _on_auth_failed has run to its end
  authAttempts,             \* reconnect_attempts when auth.failed arrived
  afterAuth,                \* what the connector did after authHandled
  duplicateDropped,         \* _on_transcription has dropped a seen chunk_id
  source_kind,              \* which source the session was built with
  is_streaming,             \* TranscriptionService.is_streaming
  connection,               \* TranscriptionService.connection
  dgPc,                     \* position of start_streaming / stop_streaming
  callbackTasks,            \* tasks created for on_transcript, not yet run
  audio,                    \* the last send_audio call
  sessions,                 \* MeetingManager.sessions: the ids it holds
  created,                  \* ids ever given to a session
  websockets,               \* session.websockets, per session
  segment_count,            \* session.segment_count, per session
  webhook_tasks,            \* the send_transcript tasks created, per session,
                            \* each "pending" | "done" | "failed"
  endpoint,                 \* websocket_endpoint of each handle
  health,                   \* what a send on the handle does
  closed,                   \* handles stop_meeting has called close() on
  received,                 \* events each handle was sent, in order
  bc,                       \* the _on_transcript coroutines
  stopPc,                   \* the stop_meeting coroutine
  path,                     \* the meeting id in the path of each connection
  connector,                \* per session, the task create made for its
                            \* source and the segments that source handed on
  cmd,                      \* the process_command coroutine
  start,                    \* the last answer of the start-local endpoint
  speaker_stats,            \* session.speaker_stats of each session
  monitor,                  \* MeetingManager.fireflies_monitor
  \* LocalTranscriptionService
  lt_running,               \* self._running
  lt_websocket,             \* self._websocket: "none" | "open"
  lt_full_transcript,       \* self._full_transcript
  lt_segment_count,         \* self._segment_count
  lt_emitted,               \* log of the segments handed to on_transcript
  lt_audio_stream,          \* self._audio_stream: "none" | "open"
  lt_pyaudio,               \* self._pyaudio: "none" | "open"
  lt_tasks,                 \* self._tasks holds the two tasks
  lt_send,                  \* the _send_audio task: "none" | "running" |
                            \* "cancelled" | "done"
  lt_recv,                  \* the _receive_transcripts task: "none" |
                            \* "receiving" | "callback" | "cancelled" | "done"
  lt_stop,                  \* stop(): "idle" | "await_send" | "await_recv" |
                            \* "closing" | "returned"
  ltPc                      \* start(): "new" | "connecting" | "gather" |
                            \* "closing" | "idle"

ffVars == <<sio, transport, is_connected, is_authenticated,
            fireflies_transcript_id, connection_mode, polling_task,
            last_sentence_index, segment_number, transcript_buffer,
            processed_chunks, reconnect_attempts, connPc, connArg, pollPc,
            discPc, emitted, closeCalled, closes, afterClose, failRun,
            authHandled, authAttempts, afterAuth, duplicateDropped>>

dgVars == <<is_streaming, connection, dgPc, callbackTasks, audio>>

mgrVars == <<sessions, created, websockets, segment_count, webhook_tasks,
             endpoint, health, closed, received, bc, stopPc, path,
             connector, cmd, start, speaker_stats, monitor>>

ltVars == <<lt_running, lt_websocket, lt_full_transcript, lt_segment_count,
            lt_emitted, lt_audio_stream, lt_pyaudio, lt_tasks, lt_send,
            lt_recv, lt_stop, ltPc>>

vars == <<ffVars, source_kind, dgVars, mgrVars, ltVars>>

(***************************************************************************)
(* FirefliesService.__init__                                               *)
(***************************************************************************)
PollIdle == [at |-> "none", rest |-> <<>>]

\* The connector but for its sequencing state.
FirefliesRest ==
  /\ sio = "none"
  /\ transport = "down"
  /\ is_connected = FALSE
  /\ is_authenticated = FALSE
  /\ fireflies_transcript_id = None
  /\ connection_mode = "disconnected"
  /\ polling_task = "none"
  /\ last_sentence_index = 0
  /\ processed_chunks = {}
  /\ reconnect_attempts = 0
  /\ connPc = "none"
  /\ connArg = None
  /\ pollPc = PollIdle
  /\ discPc = [c \in {"user", "auth"} |-> "idle"]
  /\ closeCalled = FALSE
  /\ closes = <<>>
  /\ afterClose = None
  /\ failRun = 0
  /\ authHandled = FALSE
  /\ authAttempts = 0
  /\ afterAuth = None
  /\ duplicateDropped = FALSE

FirefliesInit ==
  /\ FirefliesRest
  /\ segment_number = 0
  /\ transcript_buffer = <<>>
  /\ emitted = <<>>

\* History bookkeeping: the first thing the connector does once closed, and
\* the first transport it opens or poll it makes once an authentication
\* failure has been handled.
First(kinds) ==
  IF "open" \in kinds THEN "open"
  ELSE IF "poll" \in kinds THEN "poll"
  ELSE IF "status" \in kinds THEN "status"
  ELSE IF "transcript" \in kinds THEN "transcript"
  ELSE None

Note(kinds) ==
  /\ afterClose' = IF closeCalled /\ afterClose = None
                   THEN First(kinds) ELSE afterClose
  /\ afterAuth' = IF authHandled /\ afterAuth = None
                  THEN First(kinds \ {"status", "transcript"}) ELSE afterAuth

(***************************************************************************)
(* Sequencing: the code shared by _on_transcription (357-390) and          *)
(* _process_polled_sentences (546-579).                                    *)
(***************************************************************************)
PreviousSegments(buffer) ==
  SubSeq(buffer, IF Len(buffer) > ContextWindow
                 THEN Len(buffer) - ContextWindow + 1 ELSE 1, Len(buffer))

BufferGrow(buffer, text, size) == Append(buffer, text)
BufferAppend(buffer, text, size) ==
  LET b == Append(buffer, text)
  IN IF Len(b) > size THEN Tail(b) ELSE b

RepeatSegmentNumber(n) == n
NextSegmentNumber(n) == n + 1

\* Builds the segment, advances the counter and the buffer, and calls
\* on_transcript with it; nothing suspends in between.  The log keeps of each
\* segment its number, text, source, context, the underlying sentence and its
\* dedup key (chunk_id when it is one: see Truthy).
EmitSegment(source, frag, chunk_id, text) ==
  /\ emitted' = Append(emitted,
       [segment_number |-> segment_number, segment |-> text,
        source |-> source, frag |-> frag,
        dedup_key |-> IF Truthy(chunk_id) THEN chunk_id ELSE None,
        previous_segments |-> PreviousSegments(transcript_buffer)])
  /\ segment_number' = NextSegmentNumber(segment_number)
  /\ transcript_buffer' = BufferAppend(transcript_buffer, text, max_buffer_size)

(***************************************************************************)
(* connect() and _handle_reconnect()                                       *)
(***************************************************************************)
ReconnectExceeded(attempts) == attempts > max_reconnect_attempts
ReconnectExhausted(attempts) == attempts >= max_reconnect_attempts

\* `if self._polling_task and not self._polling_task.done()` (427).
AlreadyPolling == polling_task = "task" /\ pollPc.at # "none"

\* _start_polling up to its await of the status callback (427-439).
StartPolling(mode, kinds) ==
  IF AlreadyPolling
  THEN /\ connPc' = "done"
       /\ is_connected' = FALSE
       /\ connection_mode' = mode
       /\ Note(kinds)
  ELSE /\ connection_mode' = "polling"
       /\ is_connected' = TRUE
       /\ connPc' = "pollcb"
       /\ Note(kinds \cup {"status"})

\* `self.reconnect_attempts += 1` (413).
SameAttempt(attempts) == attempts
NextAttempt(attempts) == attempts + 1

\* The except branches of connect() (214-221) followed by _handle_reconnect
\* (404-419), entered with the given reconnect_attempts and connection_mode.
HandleReconnect(attempts, mode, kinds) ==
  IF ~Truthy(fireflies_transcript_id)
  THEN /\ connPc' = "done"
       /\ is_connected' = FALSE
       /\ reconnect_attempts' = attempts
       /\ connection_mode' = mode
       /\ Note(kinds)
  ELSE IF ReconnectExhausted(attempts)
  THEN /\ reconnect_attempts' = attempts
       /\ StartPolling(mode, kinds)
  ELSE /\ reconnect_attempts' = NextAttempt(attempts)
       /\ connPc' = "sleep"
       /\ is_connected' = FALSE
       /\ connection_mode' = mode
       /\ Note(kinds)

\* MeetingManager.start_fireflies_meeting creates the task running connect().
ConnectCalled(tid) ==
  /\ source_kind = "fireflies"
  /\ connPc = "none"
  /\ connPc' = "scheduled"
  /\ connArg' = tid
  /\ UNCHANGED <<sio, transport, is_connected, is_authenticated,
                 fireflies_transcript_id, connection_mode, polling_task,
                 last_sentence_index, segment_number, transcript_buffer,
                 processed_chunks, reconnect_attempts, pollPc, discPc,
                 emitted, closeCalled, afterClose, failRun,
                 authHandled, authAttempts, afterAuth,
                 source_kind, dgVars, mgrVars, ltVars, closes, duplicateDropped>>

\* connect() from its first line to the await of sio.connect (174-202).
OpenTransport ==
  /\ fireflies_transcript_id' = connArg
  /\ sio' = "client"
  /\ transport' = "down"
  /\ connPc' = "connecting"
  /\ Note({"open"})
  /\ UNCHANGED <<is_connected, is_authenticated, connection_mode,
                 polling_task, last_sentence_index, segment_number,
                 transcript_buffer, processed_chunks, reconnect_attempts,
                 connArg, pollPc, discPc, emitted, closeCalled,
                 failRun, authHandled, authAttempts,
                 source_kind, dgVars, mgrVars, ltVars, closes, duplicateDropped>>

ConnectStart ==
  /\ connPc = "scheduled"
  /\ OpenTransport

\* _handle_reconnect after its sleep: await self.connect(...) (419-421).
ReconnectWake ==
  /\ connPc = "sleep"
  /\ OpenTransport

\* `self.reconnect_attempts = 0` once sio.connect has returned (206).
KeepAttempts(attempts) == attempts
ResetAttempts(attempts) == 0

\* sio.connect returned: 204-212.  With self.sio already reset to None by a
\* disconnect(), self.sio.wait() raises AttributeError into `except Exception`.
SioConnectOk ==
  /\ connPc = "connecting"
  /\ transport' = "up"
  /\ failRun' = 0
  /\ IF sio = "client"
     THEN /\ is_connected' = TRUE
          /\ connection_mode' = "socketio"
          /\ reconnect_attempts' = ResetAttempts(reconnect_attempts)
          /\ connPc' = "wait"
          /\ UNCHANGED <<afterClose, afterAuth>>
     ELSE HandleReconnect(ResetAttempts(reconnect_attempts), "socketio", {})
  /\ UNCHANGED <<sio, is_authenticated, fireflies_transcript_id,
                 polling_task, last_sentence_index, segment_number,
                 transcript_buffer, processed_chunks, connArg, pollPc,
                 discPc, emitted, closeCalled, authHandled, authAttempts,
                 source_kind, dgVars, mgrVars, ltVars, closes, duplicateDropped>>

\* sio.connect raised: 214-221.
SioConnectFail ==
  /\ connPc = "connecting"
  /\ failRun' = failRun + 1
  /\ HandleReconnect(reconnect_attempts, connection_mode, {})
  /\ UNCHANGED <<sio, transport, is_authenticated, fireflies_transcript_id,
                 polling_task, last_sentence_index, segment_number,
                 transcript_buffer, processed_chunks, connArg, pollPc,
                 discPc, emitted, closeCalled, authHandled, authAttempts,
                 source_kind, dgVars, mgrVars, ltVars, closes, duplicateDropped>>

\* The established transport goes down without a call of disconnect(): the
\* library runs the `disconnect` handler (233-237).
ConnectionLost ==
  /\ transport = "up"
  /\ transport' = "failed"
  /\ is_connected' = FALSE
  /\ is_authenticated' = FALSE
  /\ UNCHANGED <<sio, fireflies_transcript_id, connection_mode,
                 polling_task, last_sentence_index, segment_number,
                 transcript_buffer, processed_chunks, reconnect_attempts,
                 connPc, connArg, pollPc, discPc, emitted,
                 closeCalled, afterClose, failRun, authHandled,
                 authAttempts, afterAuth,
                 source_kind, dgVars, mgrVars, ltVars, closes, duplicateDropped>>

\* sio.wait() returns once the transport is gone, closed by disconnect() or
\* failed: connect() returns (212).
SioWaitReturns ==
  /\ connPc = "wait"
  /\ transport # "up"
  /\ connPc' = "done"
  /\ UNCHANGED <<sio, transport, is_connected, is_authenticated,
                 fireflies_transcript_id, connection_mode, polling_task,
                 last_sentence_index, segment_number, transcript_buffer,
                 processed_chunks, reconnect_attempts, connArg, pollPc,
                 discPc, emitted, closeCalled, afterClose,
                 failRun, authHandled, authAttempts, afterAuth,
                 source_kind, dgVars, mgrVars, ltVars, closes, duplicateDropped>>

\* sio.wait() raises on the failed transport: `except Exception` (218-221).
SioWaitRaises ==
  /\ connPc = "wait"
  /\ transport = "failed"
  /\ HandleReconnect(reconnect_attempts, connection_mode, {})
  /\ UNCHANGED <<sio, transport, is_authenticated, fireflies_transcript_id,
                 polling_task, last_sentence_index, segment_number,
                 transcript_buffer, processed_chunks, connArg, pollPc,
                 discPc, emitted, closeCalled, failRun, authHandled,
                 authAttempts,
                 source_kind, dgVars, mgrVars, ltVars, closes, duplicateDropped>>

\* _start_polling after the status callback returned (441).
StartPollingResume ==
  /\ connPc = "pollcb"
  /\ polling_task' = "task"
  /\ pollPc' = [PollIdle EXCEPT !.at = "start"]
  /\ connPc' = "done"
  /\ Note({"poll"})
  /\ UNCHANGED <<sio, transport, is_connected, is_authenticated,
                 fireflies_transcript_id, connection_mode,
                 last_sentence_index, segment_number, transcript_buffer,
                 processed_chunks, reconnect_attempts, connArg, discPc,
                 emitted, closeCalled, failRun,
                 authHandled, authAttempts,
                 source_kind, dgVars, mgrVars, ltVars, closes, duplicateDropped>>

(***************************************************************************)
(* Polling fallback                                                        *)
(***************************************************************************)
PolledSentences ==
  UNION {{[index |-> i, text |-> [body |-> TextOf(i), pad |-> FALSE]],
          [index |-> i, text |-> [body |-> "", pad |-> TRUE]]} :
         i \in 0..MaxPollIdx}

\* What one request returns: a list of sentences, each index at most once, in
\* any order.
PollLists ==
  {l \in UNION {[1..n -> PolledSentences] : n \in 1..MaxPollLen} :
     \A i, j \in DOMAIN l : i # j => l[i].index # l[j].index}

\* `if index <= self._last_sentence_index: continue` (533).
SkipOlder(index, last) == index < last
SkipSentence(index, last) == index <= last

\* The loop of _process_polled_sentences over the sentences not yet visited,
\* up to the next sentence it emits: a skipped sentence leaves the index
\* alone, a sentence with blank text advances it (529-540).  Returns the
\* sentences from the emitted one on, and the index reached.
RECURSIVE Scan(_, _)
Scan(sentences, last) ==
  IF sentences = <<>> THEN [rest |-> <<>>, last |-> last]
  ELSE IF SkipSentence(Head(sentences).index, last)
       THEN Scan(Tail(sentences), last)
  ELSE IF Empty(Strip(Head(sentences).text))
       THEN Scan(Tail(sentences), Head(sentences).index)
  ELSE [rest |-> sentences, last |-> Head(sentences).index]

\* Runs _process_polled_sentences over the given sentences to its next await
\* (the callback of the sentence it emits) or to the end of the list, which
\* is followed by the loop's sleep (461).
ProcessFrom(sentences) ==
  LET r == Scan(sentences, last_sentence_index)
  IN /\ last_sentence_index' = r.last
     /\ IF r.rest = <<>>
        THEN /\ pollPc' = [PollIdle EXCEPT !.at = "sleep"]
             /\ UNCHANGED <<emitted, segment_number, transcript_buffer,
                            afterClose, afterAuth>>
        ELSE /\ pollPc' = [at |-> "proc", rest |-> Tail(r.rest)]
             /\ EmitSegment("polling", Head(r.rest).index, None,
                            Strip(Head(r.rest).text))
             /\ Note({"transcript"})

\* _polling_loop: the `while` test, then the request of
\* _fetch_transcript_updates (458-501).
PollWake ==
  /\ pollPc.at \in {"start", "sleep"}
  /\ IF connection_mode = "polling"
     THEN /\ pollPc' = [PollIdle EXCEPT !.at = "fetching"]
          /\ Note({"poll"})
     ELSE /\ pollPc' = PollIdle
          /\ UNCHANGED <<afterClose, afterAuth>>
  /\ UNCHANGED <<sio, transport, is_connected, is_authenticated,
                 fireflies_transcript_id, connection_mode, polling_task,
                 last_sentence_index, segment_number, transcript_buffer,
                 processed_chunks, reconnect_attempts, connPc, connArg,
                 discPc, emitted, closeCalled, failRun,
                 authHandled, authAttempts,
                 source_kind, dgVars, mgrVars, ltVars, closes, duplicateDropped>>

\* The request failed or brought no sentences (502-525): back to the sleep.
PollFetchNothing ==
  /\ pollPc.at = "fetching"
  /\ pollPc' = [PollIdle EXCEPT !.at = "sleep"]
  /\ UNCHANGED <<sio, transport, is_connected, is_authenticated,
                 fireflies_transcript_id, connection_mode, polling_task,
                 last_sentence_index, segment_number, transcript_buffer,
                 processed_chunks, reconnect_attempts, connPc, connArg,
                 discPc, emitted, closeCalled, afterClose,
                 failRun, authHandled, authAttempts, afterAuth,
                 source_kind, dgVars, mgrVars, ltVars, closes, duplicateDropped>>

\* The request brought sentences (518-520, 527-579).
PollFetchSentences(sentences) ==
  /\ pollPc.at = "fetching"
  /\ segment_number < MaxSegments
  /\ ProcessFrom(sentences)
  /\ UNCHANGED <<sio, transport, is_connected, is_authenticated,
                 fireflies_transcript_id, connection_mode, polling_task,
                 processed_chunks, reconnect_attempts, connPc, connArg,
                 discPc, closeCalled, failRun, authHandled,
                 authAttempts,
                 source_kind, dgVars, mgrVars, ltVars, closes, duplicateDropped>>

\* on_transcript returned to _process_polled_sentences (579).
PollCallbackReturns ==
  /\ pollPc.at = "proc"
  /\ segment_number < MaxSegments
  /\ ProcessFrom(pollPc.rest)
  /\ UNCHANGED <<sio, transport, is_connected, is_authenticated,
                 fireflies_transcript_id, connection_mode, polling_task,
                 processed_chunks, reconnect_attempts, connPc, connArg,
                 discPc, closeCalled, failRun, authHandled,
                 authAttempts,
                 source_kind, dgVars, mgrVars, ltVars, closes, duplicateDropped>>

(***************************************************************************)
(* Socket.IO event handlers                                                *)
(***************************************************************************)
\* The payloads of transcription.broadcast: for each underlying sentence a
\* text (plain, padded with blanks, or blank) and a chunk_id (its own id,
\* None or ""); and a payload that is no dict at all.
EventText(k) == {[body |-> TextOf(k), pad |-> FALSE],
                 [body |-> TextOf(k), pad |-> TRUE],
                 [body |-> "", pad |-> TRUE]}

TranscriptionEvents ==
  UNION {{[isdict |-> TRUE, chunk_id |-> ChunkOf(k), text |-> t, frag |-> k] :
            t \in EventText(k)}
         \cup {[isdict |-> TRUE, chunk_id |-> c, frag |-> k,
                text |-> [body |-> TextOf(k), pad |-> FALSE]] : c \in {None, ""}}
         : k \in Frags}
  \cup {[isdict |-> FALSE, chunk_id |-> None, frag |-> 0,
         text |-> [body |-> "", pad |-> TRUE]]}

\* `if chunk_id: if chunk_id in self.processed_chunks: return` (351-354).
NeverDuplicate(chunk_id, chunks) == FALSE
IsDuplicate(chunk_id, chunks) == Truthy(chunk_id) /\ chunk_id \in chunks

\* `self.processed_chunks.add(chunk_id)` under `if chunk_id:` (351, 355).
RememberChunk(chunk_id, chunks) ==
  IF Truthy(chunk_id) THEN chunks \cup {chunk_id} ELSE chunks

\* _on_transcription (317-393).
OnTranscription(data) ==
  /\ transport = "up"
  /\ segment_number < MaxSegments
  /\ LET text == Strip(data.text)
     IN IF ~data.isdict \/ Empty(text)
        THEN UNCHANGED <<processed_chunks, emitted, segment_number,
                         transcript_buffer, afterClose, afterAuth,
                         duplicateDropped>>
        ELSE IF IsDuplicate(data.chunk_id, processed_chunks)
        THEN /\ duplicateDropped' = TRUE
             /\ UNCHANGED <<processed_chunks, emitted, segment_number,
                            transcript_buffer, afterClose, afterAuth>>
        ELSE /\ processed_chunks' = RememberChunk(data.chunk_id, processed_chunks)
             /\ EmitSegment("realtime", data.frag, data.chunk_id, text)
             /\ Note({"transcript"})
             /\ UNCHANGED duplicateDropped
  /\ UNCHANGED <<sio, transport, is_connected, is_authenticated,
                 fireflies_transcript_id, connection_mode, polling_task,
                 last_sentence_index, reconnect_attempts, connPc, connArg,
                 pollPc, discPc, closeCalled, failRun,
                 authHandled, authAttempts,
                 source_kind, dgVars, mgrVars, ltVars, closes>>

StatusKinds == {"authenticated", "auth_failed", "connected", "error", "polling"}

\* A handler that only reports a status (296-315).
ReportStatus(status) ==
  /\ transport = "up"
  /\ status \in StatusKinds
  /\ Note({"status"})

\* _on_auth_success (270-279).
OnAuthSuccess ==
  /\ ReportStatus("authenticated")
  /\ is_authenticated' = TRUE
  /\ UNCHANGED <<sio, transport, is_connected, fireflies_transcript_id,
                 connection_mode, polling_task, last_sentence_index,
                 segment_number, transcript_buffer, processed_chunks,
                 reconnect_attempts, connPc, connArg, pollPc, discPc,
                 emitted, closeCalled, failRun, authHandled, authAttempts,
                 source_kind, dgVars, mgrVars, ltVars, closes, duplicateDropped>>

\* _on_connection_established (296-304).
OnConnectionEstablished ==
  /\ ReportStatus("connected")
  /\ UNCHANGED <<sio, transport, is_connected, is_authenticated,
                 fireflies_transcript_id, connection_mode, polling_task,
                 last_sentence_index, segment_number, transcript_buffer,
                 processed_chunks, reconnect_attempts, connPc, connArg,
                 pollPc, discPc, emitted, closeCalled, failRun, authHandled,
                 authAttempts,
                 source_kind, dgVars, mgrVars, ltVars, closes, duplicateDropped>>

\* _on_connection_error (306-315).
OnConnectionError ==
  /\ ReportStatus("error")
  /\ UNCHANGED <<sio, transport, is_connected, is_authenticated,
                 fireflies_transcript_id, connection_mode, polling_task,
                 last_sentence_index, segment_number, transcript_buffer,
                 processed_chunks, reconnect_attempts, connPc, connArg,
                 pollPc, discPc, emitted, closeCalled, failRun, authHandled,
                 authAttempts,
                 source_kind, dgVars, mgrVars, ltVars, closes, duplicateDropped>>

\* _on_auth_failed up to its await of the status callback (281-291).
OnAuthFailed ==
  /\ discPc["auth"] = "idle"
  /\ ReportStatus("auth_failed")
  /\ is_authenticated' = FALSE
  /\ authAttempts' = reconnect_attempts
  /\ discPc' = [discPc EXCEPT !["auth"] = "cb"]
  /\ UNCHANGED <<sio, transport, is_connected, fireflies_transcript_id,
                 connection_mode, polling_task, last_sentence_index,
                 segment_number, transcript_buffer, processed_chunks,
                 reconnect_attempts, connPc, connArg, pollPc, emitted,
                 closeCalled, failRun, authHandled,
                 source_kind, dgVars, mgrVars, ltVars, closes, duplicateDropped>>

(***************************************************************************)
(* disconnect(): called by the owner (MeetingManager.stop_meeting, 410) and *)
(* by _on_auth_failed (294).                                               *)
(***************************************************************************)
\* Where a caller of disconnect() is once it has returned: the owner,
\* stop_meeting, goes on to 413-430 and cancels nothing there.
Returned(c) == IF c = "user" THEN "returned" ELSE "idle"

\* The log of the owner's returns: the client, its transport, the flags, the
\* mode and whether a polling loop runs, as the call leaves them.
Returns(c, connected, authenticated, mode) ==
  IF c = "user"
  THEN Append(closes, [sio |-> "none", transport |-> transport,
                       is_connected |-> connected,
                       is_authenticated |-> authenticated,
                       connection_mode |-> mode,
                       polling |-> pollPc.at # "none"])
  ELSE closes

\* 589-599: the flags, then the await of sio.disconnect() when a client exists.
DisconnectTail(c) ==
  /\ is_connected' = FALSE
  /\ is_authenticated' = FALSE
  /\ connection_mode' = "disconnected"
  /\ IF sio = "client"
     THEN /\ transport' = "down"
          /\ discPc' = [discPc EXCEPT ![c] = "siodisc"]
          /\ UNCHANGED <<authHandled, closes>>
     ELSE /\ discPc' = [discPc EXCEPT ![c] = Returned(c)]
          /\ authHandled' = (authHandled \/ c = "auth")
          /\ closes' = Returns(c, FALSE, FALSE, "disconnected")
          /\ UNCHANGED transport

\* 583-587: with a live polling task, _stop_polling cancels it and awaits it.
DisconnectEnter(c) ==
  /\ closeCalled' = TRUE
  /\ IF connection_mode = "polling" /\ polling_task = "task" /\ pollPc.at # "none"
     THEN /\ pollPc' = PollIdle
          /\ discPc' = [discPc EXCEPT ![c] = "stoppoll"]
          /\ UNCHANGED <<polling_task, is_connected, is_authenticated,
                         connection_mode, transport, authHandled, closes>>
     ELSE /\ polling_task' = IF connection_mode = "polling" THEN "none"
                             ELSE polling_task
          /\ UNCHANGED pollPc
          /\ DisconnectTail(c)
  /\ UNCHANGED <<sio, fireflies_transcript_id, last_sentence_index,
                 segment_number, transcript_buffer, processed_chunks,
                 reconnect_attempts, connPc, connArg, emitted, afterClose,
                 failRun, authAttempts, afterAuth,
                 source_kind, dgVars, mgrVars, ltVars, duplicateDropped>>

\* The owner's call.
Disconnect ==
  /\ connPc # "none"
  /\ discPc["user"] \in {"idle", "returned"}
  /\ Len(closes) < MaxCloses
  /\ DisconnectEnter("user")

\* _on_auth_failed after the status callback: `await self.disconnect()`.
AuthFailedDisconnect ==
  /\ discPc["auth"] = "cb"
  /\ DisconnectEnter("auth")

\* _stop_polling after the cancelled task ended (451), then 589-599.
DisconnectAfterStopPolling(c) ==
  /\ discPc[c] = "stoppoll"
  /\ polling_task' = "none"
  /\ DisconnectTail(c)
  /\ UNCHANGED <<sio, fireflies_transcript_id, last_sentence_index,
                 segment_number, transcript_buffer, processed_chunks,
                 reconnect_attempts, connPc, connArg, pollPc, emitted,
                 closeCalled, closes, afterClose, failRun, authAttempts,
                 afterAuth,
                 source_kind, dgVars, mgrVars, ltVars, duplicateDropped>>

\* sio.disconnect() returned: `finally: self.sio = None` (598-599).
DisconnectAfterSio(c) ==
  /\ discPc[c] = "siodisc"
  /\ sio' = "none"
  /\ discPc' = [discPc EXCEPT ![c] = Returned(c)]
  /\ closes' = Returns(c, is_connected, is_authenticated, connection_mode)
  /\ authHandled' = (authHandled \/ c = "auth")
  /\ UNCHANGED <<transport, is_connected, is_authenticated,
                 fireflies_transcript_id, connection_mode, polling_task,
                 last_sentence_index, segment_number, transcript_buffer,
                 processed_chunks, reconnect_attempts, connPc, connArg,
                 pollPc, emitted, closeCalled, closes, afterClose,
                 failRun, authAttempts, afterAuth,
                 source_kind, dgVars, mgrVars, ltVars, duplicateDropped>>

(***************************************************************************)
(* TranscriptionService (services/transcription_service.py)                *)
(***************************************************************************)
\* The last send_audio call: whether streaming and connection were there,
\* whether the chunk went to the connection, and what the caller got.
NoAudio == [called |-> FALSE, ready |-> FALSE, sent |-> FALSE, result |-> None]

DgInit ==
  /\ is_streaming = FALSE
  /\ connection = "none"
  /\ dgPc = "idle"
  /\ callbackTasks = <<>>
  /\ audio = NoAudio

\* What the SDK hands to _on_message: no result, no alternatives, or a
\* transcript with its is_final flag.
DgResults ==
  {[result |-> FALSE, alternatives |-> FALSE, is_final |-> FALSE,
    transcript |-> [body |-> "", pad |-> FALSE], frag |-> 0],
   [result |-> TRUE, alternatives |-> FALSE, is_final |-> FALSE,
    transcript |-> [body |-> "", pad |-> FALSE], frag |-> 0]}
  \cup UNION {{[result |-> TRUE, alternatives |-> TRUE, is_final |-> f,
                transcript |-> t, frag |-> k] :
                 f \in BOOLEAN, t \in EventText(k)} : k \in Frags}

\* start_streaming up to its await of connection.start (80-106).
StartStreaming ==
  /\ source_kind = "deepgram"
  /\ dgPc = "idle"
  /\ connection = "none"
  /\ connection' = "starting"
  /\ dgPc' = "start"
  /\ UNCHANGED <<ffVars, mgrVars, ltVars, source_kind, audio, is_streaming, callbackTasks>>

\* connection.start returned True or False, or raised (106-116).
StartStreamingReturns(ok) ==
  /\ dgPc = "start"
  /\ dgPc' = "idle"
  /\ is_streaming' = ok
  /\ connection' = IF connection = "starting"
                   THEN (IF ok THEN "live" ELSE "dead") ELSE connection
  /\ UNCHANGED <<ffVars, mgrVars, ltVars, source_kind, audio, callbackTasks>>

\* `if not is_final: return` (173-176).
DropInterim(is_final) == ~is_final

\* _on_message (143-216): a synchronous handler; on_transcript(segment) is
\* called here, its coroutine runs later as a task.
OnMessage(r) ==
  /\ connection = "live"
  /\ segment_number < MaxSegments
  /\ IF ~r.result \/ ~r.alternatives \/ Empty(r.transcript)
        \/ Empty(Strip(r.transcript)) \/ DropInterim(r.is_final)
     THEN UNCHANGED <<emitted, segment_number, transcript_buffer, callbackTasks>>
     ELSE /\ emitted' = Append(emitted,
               [segment_number |-> segment_number, segment |-> r.transcript,
                source |-> "deepgram", frag |-> r.frag, dedup_key |-> None,
                previous_segments |-> PreviousSegments(transcript_buffer)])
          /\ segment_number' = NextSegmentNumber(segment_number)
          /\ transcript_buffer' =
               BufferAppend(transcript_buffer, r.transcript, dg_max_buffer_size)
          /\ callbackTasks' = Append(callbackTasks, segment_number)
  /\ UNCHANGED <<sio, transport, is_connected, is_authenticated,
                 fireflies_transcript_id, connection_mode, polling_task,
                 last_sentence_index, processed_chunks, reconnect_attempts,
                 connPc, connArg, pollPc, discPc, closeCalled, closes, afterClose,
                 failRun, authHandled, authAttempts, afterAuth,
                 duplicateDropped, source_kind, is_streaming, connection,
                 dgPc, mgrVars, ltVars, audio>>

\* The event loop runs the oldest task made by asyncio.create_task (213).
CallbackTaskRuns ==
  /\ callbackTasks # <<>>
  /\ callbackTasks' = Tail(callbackTasks)
  /\ UNCHANGED <<ffVars, mgrVars, ltVars, source_kind, audio, is_streaming, connection, dgPc>>

\* _on_close (218-221).
OnClose ==
  /\ connection = "live"
  /\ connection' = "dead"
  /\ is_streaming' = FALSE
  /\ UNCHANGED <<ffVars, mgrVars, ltVars, source_kind, audio, dgPc, callbackTasks>>

\* stop_streaming up to its await of connection.finish (225-229); without a
\* connection it runs to its end.
StopStreaming ==
  /\ source_kind = "deepgram"
  /\ dgPc = "idle"
  /\ IF connection # "none"
     THEN /\ dgPc' = "finish"
          /\ UNCHANGED <<is_streaming, connection>>
     ELSE /\ is_streaming' = FALSE
          /\ UNCHANGED <<dgPc, connection>>
  /\ UNCHANGED <<ffVars, mgrVars, ltVars, source_kind, audio, callbackTasks>>

\* connection.finish returned (231-232), or raised (235-236).
StopStreamingReturns(ok) ==
  /\ dgPc = "finish"
  /\ dgPc' = "idle"
  /\ IF ok THEN is_streaming' = FALSE /\ connection' = "none"
     ELSE UNCHANGED <<is_streaming, connection>>
  /\ UNCHANGED <<ffVars, mgrVars, ltVars, source_kind, audio, callbackTasks>>

\* send_audio (127-141): without streaming or connection a warning and
\* `return`; otherwise connection.send, its exception logged; the result is
\* None on every path.
SendAudioResult(ready) == None

SendAudio ==
  /\ source_kind = "deepgram"
  /\ LET ready == is_streaming /\ connection # "none"
     IN audio' = [called |-> TRUE, ready |-> ready, sent |-> ready,
                  result |-> SendAudioResult(ready)]
  /\ UNCHANGED <<ffVars, mgrVars, ltVars, source_kind, is_streaming,
                 connection, dgPc, callbackTasks>>

DgNext ==
  \/ SendAudio
  \/ StartStreaming
  \/ \E ok \in BOOLEAN : StartStreamingReturns(ok)
  \/ \E r \in DgResults : OnMessage(r)
  \/ CallbackTaskRuns
  \/ OnClose
  \/ StopStreaming
  \/ \E ok \in BOOLEAN : StopStreamingReturns(ok)

(***************************************************************************)
(* LocalTranscriptionService (services/local_transcription_service.py)     *)
(***************************************************************************)
LtInit ==
  /\ lt_running = FALSE
  /\ lt_websocket = "none"
  /\ lt_full_transcript = <<>>
  /\ lt_segment_count = 0
  /\ lt_emitted = <<>>
  /\ lt_audio_stream = "none"
  /\ lt_pyaudio = "none"
  /\ lt_tasks = FALSE
  /\ lt_send = "none"
  /\ lt_recv = "none"
  /\ lt_stop = "idle"
  /\ ltPc = "new"

\* What Deepgram sends: a message without "channel", or one with a
\* transcript and its is_final flag (141-147).
LtResults ==
  {[channel |-> FALSE, transcript |-> [body |-> "", pad |-> FALSE],
    is_final |-> FALSE]}
  \cup [channel : {TRUE}, transcript : RawTexts, is_final : BOOLEAN]

ltData == <<lt_full_transcript, lt_segment_count, lt_emitted>>
ltOthers == <<ffVars, mgrVars, dgVars, source_kind>>

\* What a handle is after _cleanup has dealt with it (214-236), or if it
\* were left as it is.
Kept(handle) == handle
Released(handle) == "none"

\* _cleanup past its await of websocket.close() (219-238).
CleanupRest ==
  /\ lt_websocket' = Released(lt_websocket)
  /\ lt_audio_stream' = Released(lt_audio_stream)
  /\ lt_pyaudio' = Released(lt_pyaudio)
  /\ lt_tasks' = FALSE

\* start() up to its await of websockets.connect (46-84); the session's
\* one task _run_local_transcription calls it once.  Opening the audio
\* device may raise: then `finally` cleans up (100-104), nothing to await.
LocalStart(ok) ==
  /\ source_kind = "local"
  /\ ltPc = "new"
  /\ ~lt_running
  /\ lt_running' = TRUE
  /\ lt_full_transcript' = <<>>
  /\ lt_segment_count' = 0
  /\ IF ok
     THEN /\ lt_pyaudio' = "open"
          /\ lt_audio_stream' = "open"
          /\ ltPc' = "connecting"
          /\ UNCHANGED <<lt_websocket, lt_tasks>>
     ELSE /\ CleanupRest
          /\ ltPc' = "idle"
  /\ UNCHANGED <<ltOthers, lt_emitted, lt_send, lt_recv, lt_stop>>

\* websockets.connect returned and the two tasks are made and gathered
\* (84-98), or it raised and `finally` cleans up (100-104).
LocalConnectReturns(ok) ==
  /\ ltPc = "connecting"
  /\ IF ok
     THEN /\ lt_websocket' = "open"
          /\ lt_send' = "running"
          /\ lt_recv' = "receiving"
          /\ lt_tasks' = TRUE
          /\ ltPc' = "gather"
          /\ UNCHANGED <<lt_audio_stream, lt_pyaudio>>
     ELSE /\ CleanupRest
          /\ ltPc' = "idle"
          /\ UNCHANGED <<lt_send, lt_recv>>
  /\ UNCHANGED <<ltOthers, ltData, lt_running, lt_stop>>

\* _send_audio leaves its loop (106-128): _running cleared, the websocket or
\* the stream gone, or a send that raised; or the task was cancelled.
SendTaskEnds ==
  /\ lt_send \in {"running", "cancelled"}
  /\ lt_send' = "done"
  /\ UNCHANGED <<ltOthers, ltData, lt_running, lt_websocket, lt_audio_stream,
                 lt_pyaudio, lt_tasks, lt_recv, lt_stop, ltPc>>

\* One message in _receive_transcripts (136-172), up to the await of the
\* callback: interim and final transcripts are both handed on, only final
\* ones are kept in _full_transcript.
LocalMessage(r) ==
  /\ lt_recv = "receiving"
  /\ lt_running
  /\ lt_websocket = "open"
  /\ lt_segment_count < MaxSegments
  /\ IF r.channel /\ ~Empty(r.transcript)
     THEN /\ lt_segment_count' = lt_segment_count + 1
          /\ lt_full_transcript' =
               IF r.is_final THEN Append(lt_full_transcript, r.transcript)
               ELSE lt_full_transcript
          /\ lt_emitted' = Append(lt_emitted,
               [segment |-> r.transcript, is_final |-> r.is_final])
          /\ lt_recv' = "callback"
     ELSE UNCHANGED <<ltData, lt_recv>>
  /\ UNCHANGED <<ltOthers, lt_running, lt_websocket, lt_audio_stream,
                 lt_pyaudio, lt_tasks, lt_send, lt_stop, ltPc>>

\* _safe_callback returned (186-193): the loop takes the next message.
LocalCallbackReturns ==
  /\ lt_recv = "callback"
  /\ lt_recv' = "receiving"
  /\ UNCHANGED <<ltOthers, ltData, lt_running, lt_websocket, lt_audio_stream,
                 lt_pyaudio, lt_tasks, lt_send, lt_stop, ltPc>>

\* _receive_transcripts is over (134-184): _running cleared, the connection
\* closed or in error; or the task was cancelled, CancelledError passing
\* the `except Exception` clauses.
RecvTaskEnds ==
  /\ lt_recv \in {"receiving", "cancelled"}
  /\ lt_recv' = "done"
  /\ UNCHANGED <<ltOthers, ltData, lt_running, lt_websocket, lt_audio_stream,
                 lt_pyaudio, lt_tasks, lt_send, lt_stop, ltPc>>

\* gather returned (98), `finally: await self._cleanup()` (103-104) up to
\* its await of websocket.close(), or to its end without a websocket.
GatherReturns ==
  /\ ltPc = "gather"
  /\ lt_send = "done"
  /\ lt_recv = "done"
  /\ IF lt_websocket = "open"
     THEN /\ ltPc' = "closing"
          /\ UNCHANGED <<lt_websocket, lt_audio_stream, lt_pyaudio, lt_tasks>>
     ELSE /\ CleanupRest
          /\ ltPc' = "idle"
  /\ UNCHANGED <<ltOthers, ltData, lt_running, lt_send, lt_recv, lt_stop>>

\* websocket.close() returned or raised in start()'s _cleanup (216-219).
StartCleanupResumes ==
  /\ ltPc = "closing"
  /\ CleanupRest
  /\ ltPc' = "idle"
  /\ UNCHANGED <<ltOthers, ltData, lt_running, lt_send, lt_recv, lt_stop>>

\* stop()'s loop over self._tasks (201-207) from a task on: the next task
\* not done is cancelled and awaited; after the last, _cleanup (209) up to
\* its await of websocket.close(), or to its end without a websocket.
StopFrom(tasks, send, recv) ==
  IF tasks /\ send \notin {"none", "done"}
  THEN /\ lt_send' = "cancelled"
       /\ lt_stop' = "await_send"
       /\ UNCHANGED <<lt_recv, lt_websocket, lt_audio_stream, lt_pyaudio,
                      lt_tasks>>
  ELSE IF tasks /\ recv \notin {"none", "done"}
  THEN /\ lt_recv' = "cancelled"
       /\ lt_stop' = "await_recv"
       /\ UNCHANGED <<lt_send, lt_websocket, lt_audio_stream, lt_pyaudio,
                      lt_tasks>>
  ELSE IF lt_websocket = "open"
  THEN /\ lt_stop' = "closing"
       /\ UNCHANGED <<lt_send, lt_recv, lt_websocket, lt_audio_stream,
                      lt_pyaudio, lt_tasks>>
  ELSE /\ CleanupRest
       /\ lt_stop' = "returned"
       /\ UNCHANGED <<lt_send, lt_recv>>

\* stop() (195-209) up to its first await.
LocalStop ==
  /\ source_kind = "local"
  /\ lt_stop \in {"idle", "returned"}
  /\ lt_running' = FALSE
  /\ StopFrom(lt_tasks, lt_send, lt_recv)
  /\ UNCHANGED <<ltOthers, ltData, ltPc>>

\* `await task` is over for the send task (204-207): on to the receive task,
\* which the loop still holds whatever became of self._tasks.
StopAfterSend ==
  /\ lt_stop = "await_send"
  /\ lt_send = "done"
  /\ StopFrom(TRUE, "done", lt_recv)
  /\ UNCHANGED <<ltOthers, ltData, lt_running, ltPc>>

\* `await task` is over for the receive task: on to _cleanup.
StopAfterRecv ==
  /\ lt_stop = "await_recv"
  /\ lt_recv = "done"
  /\ StopFrom(TRUE, "done", "done")
  /\ UNCHANGED <<ltOthers, ltData, lt_running, ltPc>>

\* websocket.close() returned or raised in stop()'s _cleanup (216-219).
StopCleanupResumes ==
  /\ lt_stop = "closing"
  /\ CleanupRest
  /\ lt_stop' = "returned"
  /\ UNCHANGED <<ltOthers, ltData, lt_running, lt_send, lt_recv, ltPc>>

LtNext ==
  \/ \E ok \in BOOLEAN : LocalStart(ok)
  \/ \E ok \in BOOLEAN : LocalConnectReturns(ok)
  \/ SendTaskEnds
  \/ \E r \in LtResults : LocalMessage(r)
  \/ LocalCallbackReturns
  \/ RecvTaskEnds
  \/ GatherReturns
  \/ StartCleanupResumes
  \/ LocalStop
  \/ StopAfterSend
  \/ StopAfterRecv
  \/ StopCleanupResumes

(***************************************************************************)
(* MeetingManager (services/meeting_manager.py) and the WebSocket endpoint *)
(* (main.py).  The sources are not run here: _on_transcript is called by   *)
(* whatever task a source runs its callback in, and stop_meeting's awaits   *)
(* of the sources are one suspension.                                      *)
(***************************************************************************)
Meetings == {"m1", "m2"}
Handles == 1..MaxHandles
Slots == 1..MaxBroadcasts
\* The broadcast of process_command runs beside those of _on_transcript.
CmdSlot == MaxBroadcasts + 1
AllSlots == Slots \cup {CmdSlot}
Range(f) == {f[x] : x \in DOMAIN f}

BcIdle == [pc |-> "idle", m |-> None, ev |-> 0, i |-> 0, cur |-> 0,
           disconnected |-> <<>>, snap |-> {}, unsub |-> {}, late |-> FALSE]
StopIdle == [pc |-> "idle", m |-> None, i |-> 0, snap |-> {}, http |-> 0]
CmdIdle == [pc |-> "idle", m |-> None, n |-> 0, found |-> FALSE,
            sent |-> FALSE, outcome |-> None, live |-> FALSE, ret |-> None,
            broadcasts |-> 0]

\* The stop endpoint (main.py 136-147): the "stopped" response whenever
\* stop_meeting returns, 500 when it raises.
StopResponse(raised) == IF raised THEN 500 ELSE 200

\* The speakers of the segments; `segment.get("speaker", "unknown")` (375).
Speakers == {"A", "B", "unknown"}

\* No call of a start endpoint yet.
NoStart == [http |-> 0, meeting_id |-> None, api_key |-> None]

NoConnector == [at |-> None, tid |-> None, segment_number |-> 0]

\* FirefliesMeetingMonitor.__init__ (655-660): not monitoring, no meeting
\* known, no task.  `loop` holds the _monitor_loop tasks ever created, `task`
\* the one _monitor_task refers to, `found` the ids on_meeting_found was
\* invoked with; `starts` and `polls` count the calls made.
NoMonitor ==
  [is_monitoring |-> FALSE, known_meetings |-> {}, task |-> 0,
   loop |-> [k \in 1..MaxLoops |->
               [at |-> "none", rest |-> <<>>, cancelled |-> FALSE]],
   found |-> <<>>, starts |-> 0, polls |-> 0]

\* What does not depend on the ids handed out so far.
MgrRest ==
  /\ websockets = [m \in Meetings |-> <<>>]
  /\ segment_count = [m \in Meetings |-> 0]
  /\ webhook_tasks = [m \in Meetings |-> <<>>]
  /\ endpoint = [h \in Handles |-> "new"]
  /\ health = [h \in Handles |-> "ok"]
  /\ closed = {}
  /\ received = [h \in Handles |-> <<>>]
  /\ bc = [b \in AllSlots |-> BcIdle]
  /\ stopPc = StopIdle
  /\ cmd = CmdIdle
  /\ start = NoStart
  /\ speaker_stats = [m \in Meetings |-> [speaker \in Speakers |-> 0]]
  /\ monitor = NoMonitor
  /\ path = [h \in Handles |-> None]

\* MeetingManager.__init__ (sessions = {}), and no connection accepted yet.
MgrInit ==
  /\ sessions = {}
  /\ created = {}
  /\ connector = [m \in Meetings |-> NoConnector]
  /\ MgrRest

\* The manager after an earlier session, m2, has come and gone: its id is
\* used up, its source has handed on its segments and is stopped.
MgrInitOneLeft ==
  /\ sessions = {}
  /\ created = {"m2"}
  /\ connector = [m \in Meetings |->
                    IF m = "m2"
                    THEN [at |-> "stopped", tid |-> "t1",
                          segment_number |-> MaxEvents]
                    ELSE NoConnector]
  /\ MgrRest

\* The path of the endpoint names the meeting: /ws/{meeting_id}.
MeetingOf(h) == path[h]

\* list.remove(x): the list without its first x.
Remove(list, x) ==
  LET k == CHOOSE j \in 1..Len(list) :
             list[j] = x /\ \A l \in 1..(j - 1) : list[l] # x
  IN SubSeq(list, 1, k - 1) \o SubSeq(list, k + 1, Len(list))

\* str(uuid.uuid4()): an id, whatever ids were handed out before, or one
\* that was not.
AnyId(m, used) == TRUE
FreshId(m, used) == m \notin used

\* start_fireflies_meeting (225-247), start_local_transcription (173-193)
\* and start_meeting (281-304), as source_kind has it: a new MeetingSession
\* under a fresh id, stored, and the task of its source created; nothing is
\* awaited.  Ids are numbered as they are handed out.
StartMeeting(m, tid) ==
  /\ FreshId(m, created)
  /\ \A k \in Meetings : (k = "m1" /\ m = "m2") => k \in created
  /\ created' = created \cup {m}
  /\ sessions' = sessions \cup {m}
  /\ websockets' = [websockets EXCEPT ![m] = <<>>]
  /\ segment_count' = [segment_count EXCEPT ![m] = 0]
  /\ connector' = [connector EXCEPT ![m] =
                      [at |-> "scheduled", tid |-> tid, segment_number |-> 0]]
  /\ UNCHANGED <<webhook_tasks, endpoint, health, closed, received, bc,
                 stopPc, path>>
  /\ UNCHANGED <<ffVars, source_kind, dgVars, ltVars, monitor, speaker_stats, start, cmd>>

\* The key start_local_transcription ends up with (160-168): the settings
\* value, or the one of the .env file when the settings hold none.
ApiKey(settings_key, env_key) ==
  IF Truthy(settings_key) THEN settings_key ELSE env_key

\* The start-local endpoint (main.py 199-215): "transcribing" with the id
\* when start_local_transcription returns, HTTPException(500) for whatever
\* it raises.
StartResponse(raised) == IF raised THEN 500 ELSE 200

\* POST /api/meeting/start-local: start_local_transcription (143-193) under
\* the endpoint.  Without a key ValueError is raised (170-171) ahead of the
\* id, the session and the service; with one the session is stored and its
\* task created.
StartLocalTranscription(m, settings_key, env_key) ==
  LET api_key == ApiKey(settings_key, env_key)
  IN /\ source_kind = "local"
     /\ IF ~Truthy(api_key)
        THEN /\ start' = [http |-> StartResponse(TRUE), meeting_id |-> None,
                          api_key |-> api_key]
             /\ UNCHANGED <<created, sessions, websockets, segment_count,
                            connector>>
        ELSE /\ FreshId(m, created)
             /\ \A k \in Meetings : (k = "m1" /\ m = "m2") => k \in created
             /\ start' = [http |-> StartResponse(FALSE), meeting_id |-> m,
                          api_key |-> api_key]
             /\ created' = created \cup {m}
             /\ sessions' = sessions \cup {m}
             /\ websockets' = [websockets EXCEPT ![m] = <<>>]
             /\ segment_count' = [segment_count EXCEPT ![m] = 0]
             /\ connector' = [connector EXCEPT ![m] =
                   [at |-> "scheduled", tid |-> None, segment_number |-> 0]]
     /\ UNCHANGED <<webhook_tasks, endpoint, health, closed, received, bc,
                    stopPc, path, cmd>>
     /\ UNCHANGED <<ffVars, source_kind, dgVars, ltVars, monitor, speaker_stats>>

\* The event loop runs the task made by create (connect, 245;
\* _run_local_transcription, 191; _start_meeting_services, 302).
ConnectorRuns(m) ==
  /\ connector[m].at = "scheduled"
  /\ connector' = [connector EXCEPT ![m].at = "running"]
  /\ UNCHANGED <<sessions, created, websockets, segment_count, webhook_tasks,
                 endpoint, health, closed, received, bc, stopPc, path>>
  /\ UNCHANGED <<ffVars, source_kind, dgVars, ltVars, monitor, speaker_stats, start, cmd>>

\* get_meeting_status (432-458): None for an id the registry does not hold.
Absent == [found |-> FALSE]
MeetingStatus(m) ==
  IF m \notin sessions THEN Absent
  ELSE [found |-> TRUE, meeting_id |-> m, segment_count |-> segment_count[m],
        active_connections |-> Len(websockets[m])]

\* websocket_endpoint up to its first receive_text (609-615) with
\* register_websocket (534-539).
RegisterWebsocket(h, m) ==
  /\ endpoint[h] = "new"
  /\ \A k \in 1..(h - 1) : endpoint[k] # "new"   \* handles are numbered as they come
  /\ endpoint' = [endpoint EXCEPT ![h] = "open"]
  /\ path' = [path EXCEPT ![h] = m]
  /\ websockets' = IF m \in sessions
                   THEN [websockets EXCEPT ![m] = Append(@, h)]
                   ELSE websockets
  /\ UNCHANGED <<sessions, created, segment_count, webhook_tasks, health,
                 closed, received, bc, stopPc>>
  /\ UNCHANGED <<ffVars, source_kind, dgVars, ltVars, monitor, speaker_stats, start, cmd, connector>>

\* receive_text raised, the client or the server having closed: the `finally`
\* of websocket_endpoint (621-627) with unregister_websocket (541-546).
UnregisterWebsocket(h) ==
  LET m == MeetingOf(h)
      listed == m \in sessions /\ h \in Range(websockets[m])
  IN /\ endpoint[h] = "open"
     /\ endpoint' = [endpoint EXCEPT ![h] = "done"]
     /\ websockets' = IF listed
                      THEN [websockets EXCEPT ![m] = Remove(@, h)]
                      ELSE websockets
     /\ bc' = [b \in AllSlots |->
                 IF listed /\ bc[b].pc = "sending" /\ bc[b].m = m
                 THEN [bc[b] EXCEPT !.unsub = @ \cup {h}] ELSE bc[b]]
     /\ UNCHANGED <<sessions, created, segment_count, webhook_tasks, health,
                    closed, received, stopPc>>
     /\ UNCHANGED <<ffVars, source_kind, dgVars, ltVars, monitor, speaker_stats, start, cmd, path, connector>>

\* The peer of a handle goes away: a send on it raises from now on.
ClientGone(h) ==
  /\ endpoint[h] = "open"
  /\ h \in Range(websockets[MeetingOf(h)])
  /\ health[h] = "ok"
  /\ health' = [health EXCEPT ![h] = "broken"]
  /\ UNCHANGED <<sessions, created, websockets, segment_count, webhook_tasks,
                 endpoint, closed, received, bc, stopPc>>
  /\ UNCHANGED <<ffVars, source_kind, dgVars, ltVars, monitor, speaker_stats, start, cmd, path, connector>>

\* The peer of a handle stops reading: a send on it never completes.
ClientStalls(h) ==
  /\ endpoint[h] = "open"
  /\ h \in Range(websockets[MeetingOf(h)])
  /\ health[h] = "ok"
  /\ health' = [health EXCEPT ![h] = "hung"]
  /\ UNCHANGED <<sessions, created, websockets, segment_count, webhook_tasks,
                 endpoint, closed, received, bc, stopPc>>
  /\ UNCHANGED <<ffVars, source_kind, dgVars, ltVars, monitor, speaker_stats, start, cmd, path, connector>>

\* `for ws in disconnected: session.websockets.remove(ws)` (563-565);
\* remove raises ValueError for a handle no longer in the list.
RECURSIVE RemoveDisconnected(_, _)
RemoveDisconnected(list, disconnected) ==
  IF disconnected = <<>> THEN [list |-> list, raised |-> FALSE]
  ELSE IF Head(disconnected) \notin Range(list)
       THEN [list |-> list, raised |-> TRUE]
  ELSE RemoveDisconnected(Remove(list, Head(disconnected)), Tail(disconnected))

\* `for ws in session.websockets` (556): the list iterator holds the number
\* of items it has handed out and reads the list as it is now.
HasNext(i, list) == i < Len(list)

\* Where a broadcast leaves its caller: _on_transcript has nothing left to
\* do either way, process_command returns or passes the exception on.
Finished(b, raised) ==
  IF b = CmdSlot
  THEN [BcIdle EXCEPT !.pc = IF raised THEN "raised" ELSE "done"]
  ELSE BcIdle

\* _broadcast_to_websockets from the top of its loop to the next send_json
\* it awaits (556-558) or, the list exhausted, through 563-565 to its end.
BroadcastStep(b, r) ==
  LET list == websockets[r.m]
  IN IF HasNext(r.i, list)
     THEN /\ bc' = [bc EXCEPT ![b] =
                      [r EXCEPT !.pc = "sending", !.cur = list[r.i + 1],
                                !.i = r.i + 1]]
          /\ UNCHANGED websockets
     ELSE LET c == RemoveDisconnected(list, r.disconnected)
          IN /\ websockets' = [websockets EXCEPT ![r.m] = c.list]
             /\ bc' = [bc EXCEPT ![b] = Finished(b, c.raised)]

\* What follows the forward in _on_transcript: the handler waiting for
\* send_transcript, or, as asyncio.create_task leaves it (380-388), going
\* straight on to the broadcast.
ForwardAwaited(b, r) ==
  /\ bc' = [bc EXCEPT ![b] = [r EXCEPT !.pc = "forwarding"]]
  /\ UNCHANGED websockets
ForwardInBackground(b, r) == BroadcastStep(b, r)

\* The session the callback of a source is bound to: the lambdas given to
\* the sources close over the meeting_id of their own create call (180-183,
\* 229-233, 291-294); one session for all would be the other way.
SharedSession(src) == "m1"
BoundSession(src) == src

\* `session.speaker_stats[speaker] = session.speaker_stats.get(speaker, 0) + 1`
\* (376).
ForgetSpeaker(stats, speaker) == stats
CountSpeaker(stats, speaker) == [stats EXCEPT ![speaker] = @ + 1]

\* A source hands a segment to its callback: _on_transcript (361-388) into
\* _broadcast_to_websockets (548-558).  The coroutine takes the first free
\* slot.
OnTranscriptFrom(b, src, speaker) ==
  LET m == BoundSession(src)
  IN /\ bc[b].pc = "idle"
     /\ \A k \in 1..(b - 1) : bc[k].pc # "idle"
     /\ connector[src].at \in {"running", "stopped"}
     /\ connector[src].segment_number < MaxEvents
     /\ connector' = [connector EXCEPT ![src].segment_number = @ + 1]
     /\ IF m \notin sessions
        THEN UNCHANGED <<segment_count, speaker_stats, webhook_tasks, bc,
                         websockets>>
        ELSE /\ segment_count' = [segment_count EXCEPT ![m] = @ + 1]
             /\ speaker_stats' = [speaker_stats EXCEPT
                                    ![m] = CountSpeaker(@, speaker)]
             /\ webhook_tasks' =
                  [webhook_tasks EXCEPT ![m] = Append(@, "pending")]
             /\ ForwardInBackground(b,
                  [BcIdle EXCEPT !.m = m, !.ev = segment_count[m] + 1,
                                 !.snap = Range(websockets[m]),
                                 !.late = \E h \in Range(websockets[m]) :
                                             health[h] = "hung"])
     /\ UNCHANGED <<sessions, created, endpoint, health, closed, received,
                    stopPc, path>>
     /\ UNCHANGED <<ffVars, source_kind, dgVars, ltVars, monitor, start, cmd>>

\* The segment of a source that names no speaker.
OnTranscript(b, src) == OnTranscriptFrom(b, src, "unknown")

\* send_json returned or raised (557-561); on a hung handle it does neither.
SendCompletes(b) ==
  LET r == bc[b]
      h == r.cur
  IN /\ r.pc = "sending"
     /\ health[h] # "hung"
     /\ received' = IF health[h] = "ok"
                    THEN [received EXCEPT ![h] = Append(@, r.ev)]
                    ELSE received
     /\ BroadcastStep(b,
          IF health[h] = "ok" THEN r
          ELSE [r EXCEPT !.disconnected = Append(@, h)])
     /\ UNCHANGED <<sessions, created, segment_count, webhook_tasks, endpoint,
                    health, closed, stopPc>>
     /\ UNCHANGED <<ffVars, source_kind, dgVars, ltVars, monitor, speaker_stats, start, cmd, path, connector>>

\* A send_transcript task ends (webhook_manager.py 75-106): with the
\* response or None, or with the exception its handlers let through.  A
\* request that never completes leaves the task pending.
SendTranscriptEnds(m, k, outcome) ==
  /\ k \in 1..Len(webhook_tasks[m])
  /\ webhook_tasks[m][k] = "pending"
  /\ webhook_tasks' = [webhook_tasks EXCEPT ![m][k] = outcome]
  /\ UNCHANGED <<sessions, created, websockets, segment_count, endpoint,
                 health, closed, received, bc, stopPc>>
  /\ UNCHANGED <<ffVars, source_kind, dgVars, ltVars, monitor, speaker_stats, start, cmd, path, connector>>

(***************************************************************************)
(* process_command (meeting_manager.py 460-519) and send_command           *)
(* (webhook_manager.py 108-195).  Event 0 is the command_response, event   *)
(* n > 0 the transcript_update of the session's n-th segment.              *)
(***************************************************************************)
\* The names webhook_manager.py imports (4-7): asyncio is not among them.
AsyncioImported == FALSE

\* How the request of send_command ends (164-182): 200 with a body, 200
\* with an empty body, another status, the 30 s timeout, another exception.
CommandOutcomes == {"ok", "empty", "status", "timeout", "error"}

\* `if response:` (502) and `response or {...}` (511).
TruthyResponse(value) == value \notin {None, "empty"}

\* send_command's result (174-195).  Evaluating `except asyncio.TimeoutError`
\* (184) looks the name asyncio up: undefined, it raises NameError in place
\* of either handler.
SendCommandResult(outcome) ==
  IF outcome = "ok" THEN [raised |-> FALSE, value |-> "response"]
  ELSE IF outcome = "empty" THEN [raised |-> FALSE, value |-> "empty"]
  ELSE IF outcome = "status" THEN [raised |-> FALSE, value |-> None]
  ELSE IF ~AsyncioImported THEN [raised |-> TRUE, value |-> None]
  ELSE IF outcome = "timeout"
       THEN [raised |-> FALSE, value |-> "timeout_fallback"]
  ELSE [raised |-> FALSE, value |-> "error_fallback"]

\* process_command up to its await of send_command (471-499), or its
\* return for an id the registry does not hold (472-476).
ProcessCommand(m) ==
  /\ cmd.pc \in {"idle", "returned", "raised"}
  /\ cmd.n < MaxCommands
  /\ cmd' = IF m \notin sessions
            THEN [CmdIdle EXCEPT !.pc = "returned", !.m = m, !.n = cmd.n + 1,
                                 !.ret = "not_found"]
            ELSE [CmdIdle EXCEPT !.pc = "awaiting", !.m = m, !.n = cmd.n + 1,
                                 !.found = TRUE, !.sent = TRUE]
  /\ UNCHANGED <<sessions, created, websockets, segment_count, webhook_tasks,
                 endpoint, health, closed, received, bc, stopPc, path,
                 connector>>
  /\ UNCHANGED <<ffVars, source_kind, dgVars, ltVars, monitor, speaker_stats, start>>

\* send_command is over (499-514): the exception goes on to the caller, a
\* falsy result is replaced by the error message, a truthy one is broadcast;
\* _broadcast_to_websockets returns at once for a session that is gone
\* (550-552).
SendCommandEnds(outcome) ==
  LET r == SendCommandResult(outcome)
      m == cmd.m
  IN /\ cmd.pc = "awaiting"
     /\ IF r.raised
        THEN /\ cmd' = [cmd EXCEPT !.pc = "raised", !.outcome = outcome]
             /\ UNCHANGED <<bc, websockets>>
        ELSE IF ~TruthyResponse(r.value)
        THEN /\ cmd' = [cmd EXCEPT !.pc = "returned", !.outcome = outcome,
                                   !.ret = "error_message"]
             /\ UNCHANGED <<bc, websockets>>
        ELSE IF m \notin sessions
        THEN /\ cmd' = [cmd EXCEPT !.pc = "returned", !.outcome = outcome,
                                   !.ret = r.value]
             /\ UNCHANGED <<bc, websockets>>
        ELSE /\ cmd' = [cmd EXCEPT !.pc = "broadcast", !.outcome = outcome,
                                   !.ret = r.value, !.live = TRUE,
                                   !.broadcasts = @ + 1]
             /\ BroadcastStep(CmdSlot,
                  [BcIdle EXCEPT !.m = m, !.snap = Range(websockets[m]),
                                 !.late = \E h \in Range(websockets[m]) :
                                             health[h] = "hung"])
     /\ UNCHANGED <<sessions, created, segment_count, webhook_tasks, endpoint,
                    health, closed, received, stopPc, path, connector>>
     /\ UNCHANGED <<ffVars, source_kind, dgVars, ltVars, monitor, speaker_stats, start>>

\* The broadcast of 503-509 is over: process_command returns the response
\* (511), or the ValueError of 565 leaves it.
CommandBroadcastEnds ==
  /\ cmd.pc = "broadcast"
  /\ bc[CmdSlot].pc \in {"done", "raised"}
  /\ cmd' = [cmd EXCEPT !.pc = IF bc[CmdSlot].pc = "raised"
                               THEN "raised" ELSE "returned"]
  /\ bc' = [bc EXCEPT ![CmdSlot] = BcIdle]
  /\ UNCHANGED <<sessions, created, websockets, segment_count, webhook_tasks,
                 endpoint, health, closed, received, stopPc, path, connector>>
  /\ UNCHANGED <<ffVars, source_kind, dgVars, ltVars, monitor, speaker_stats, start>>

\* stop_meeting up to its awaits of the sources (390-418).
StopMeeting(m) ==
  /\ stopPc.pc \in {"idle", "notfound"}
  /\ stopPc' = IF m \in sessions
               THEN [StopIdle EXCEPT !.pc = "services", !.m = m,
                                     !.snap = Range(websockets[m])]
               ELSE [StopIdle EXCEPT !.pc = "notfound", !.m = m,
                                     !.http = StopResponse(FALSE)]
  /\ UNCHANGED <<sessions, created, websockets, segment_count, webhook_tasks,
                 endpoint, health, closed, received, bc>>
  /\ UNCHANGED <<ffVars, source_kind, dgVars, ltVars, monitor, speaker_stats, start, cmd, path, connector>>

\* The loop of 421-425 from its top to the next close() it awaits, or, the
\* list exhausted, `del self.sessions[meeting_id]` (428).  A closed handle
\* raises on send.
StopStep ==
  LET list == websockets[stopPc.m]
  IN IF HasNext(stopPc.i, list)
     THEN LET h == list[stopPc.i + 1]
          IN /\ stopPc' = [stopPc EXCEPT !.pc = "closing", !.i = @ + 1]
             /\ closed' = closed \cup {h}
             /\ health' = [health EXCEPT ![h] = IF @ = "ok" THEN "broken" ELSE @]
             /\ UNCHANGED sessions
     ELSE /\ stopPc' = [stopPc EXCEPT
                         !.pc = IF stopPc.m \in sessions
                                THEN "done" ELSE "raised",
                         !.http = StopResponse(stopPc.m \notin sessions)]
          /\ sessions' = sessions \ {stopPc.m}
          /\ UNCHANGED <<closed, health>>

\* The sources have stopped (401-418).
StopServicesReturn ==
  /\ stopPc.pc = "services"
  /\ StopStep
  /\ connector' = [connector EXCEPT ![stopPc.m].at = "stopped"]
  /\ UNCHANGED <<created, websockets, segment_count, webhook_tasks, endpoint,
                 received, bc, path>>
  /\ UNCHANGED <<ffVars, source_kind, dgVars, ltVars, monitor, speaker_stats, start, cmd>>

\* close() returned or raised (423-425).
StopCloseReturns ==
  /\ stopPc.pc = "closing"
  /\ StopStep
  /\ UNCHANGED <<created, websockets, segment_count, webhook_tasks, endpoint,
                 received, bc>>
  /\ UNCHANGED <<ffVars, source_kind, dgVars, ltVars, monitor, speaker_stats, start, cmd, path, connector>>

\* A second stop_meeting of the same session (another stop request, or
\* cleanup, 116-117) that found the session (396) and runs from there to its
\* `del` (428) while the first one is suspended in one of its awaits.
OverlappingStop(m) ==
  /\ stopPc.pc \in {"services", "closing"}
  /\ stopPc.m = m
  /\ m \in sessions
  /\ connector' = [connector EXCEPT ![m].at = "stopped"]
  /\ closed' = closed \cup Range(websockets[m])
  /\ health' = [h \in Handles |->
                  IF h \in Range(websockets[m]) /\ health[h] = "ok"
                  THEN "broken" ELSE health[h]]
  /\ sessions' = sessions \ {m}
  /\ UNCHANGED <<created, websockets, segment_count, webhook_tasks, endpoint,
                 received, bc, stopPc, path>>
  /\ UNCHANGED <<ffVars, source_kind, dgVars, ltVars, monitor, speaker_stats, start, cmd>>

MgrNext ==
  \/ \E m \in Meetings, tid \in TranscriptIds : StartMeeting(m, tid)
  \/ \E m \in Meetings : ConnectorRuns(m)
  \/ \E h \in Handles, m \in Meetings : RegisterWebsocket(h, m)
  \/ \E h \in Handles : UnregisterWebsocket(h)
  \/ \E h \in Handles : ClientGone(h)
  \/ \E h \in Handles : ClientStalls(h)
  \/ \E b \in Slots, m \in Meetings : OnTranscript(b, m)
  \/ \E b \in Slots : SendCompletes(b)
  \/ \E m \in Meetings, k \in 1..MaxEvents, outcome \in {"done", "failed"} :
       SendTranscriptEnds(m, k, outcome)
  \/ \E m \in Meetings : StopMeeting(m)
  \/ StopServicesReturn
  \/ StopCloseReturns

(***************************************************************************)
(* One connector, of either kind, on its own.                              *)
(***************************************************************************)
FirefliesNext ==
  \/ \E tid \in TranscriptIds : ConnectCalled(tid)
  \/ ConnectStart
  \/ ReconnectWake
  \/ SioConnectOk
  \/ SioConnectFail
  \/ ConnectionLost
  \/ SioWaitReturns
  \/ SioWaitRaises
  \/ StartPollingResume
  \/ PollWake
  \/ PollFetchNothing
  \/ \E sentences \in PollLists : PollFetchSentences(sentences)
  \/ PollCallbackReturns
  \/ \E data \in TranscriptionEvents : OnTranscription(data)
  \/ OnAuthSuccess
  \/ OnConnectionEstablished
  \/ OnConnectionError
  \/ OnAuthFailed
  \/ Disconnect
  \/ AuthFailedDisconnect
  \/ \E c \in {"user", "auth"} : DisconnectAfterStopPolling(c)
  \/ \E c \in {"user", "auth"} : DisconnectAfterSio(c)

Init ==
  /\ source_kind \in {"fireflies", "deepgram", "local"}
  /\ FirefliesInit
  /\ DgInit
  /\ LtInit
  /\ MgrInit

Next == FirefliesNext \/ DgNext \/ LtNext

Spec == Init /\ [][Next]_vars

(***************************************************************************)
(* The Fireflies connector under the event loop: a coroutine that can run  *)
(* does run, a timer that is due fires, a call to the library or to the    *)
(* server comes back.  What the peer and the owner do is left free.        *)
(***************************************************************************)
TaskStep ==
  \/ ConnectStart
  \/ ReconnectWake
  \/ SioConnectOk \/ SioConnectFail
  \/ SioWaitReturns \/ SioWaitRaises
  \/ StartPollingResume

PollStep ==
  \/ PollWake
  \/ PollFetchNothing
  \/ \E sentences \in PollLists : PollFetchSentences(sentences)
  \/ PollCallbackReturns

CloseStep ==
  \/ AuthFailedDisconnect
  \/ \E c \in {"user", "auth"} : DisconnectAfterStopPolling(c)
  \/ \E c \in {"user", "auth"} : DisconnectAfterSio(c)

FairInit == Init /\ source_kind = "fireflies"

FairSpec ==
  /\ FairInit
  /\ [][FirefliesNext]_vars
  /\ WF_vars(TaskStep) /\ WF_vars(PollStep) /\ WF_vars(CloseStep)

(***************************************************************************)
(* Sequencing on a connector that has been emitting for a while: the       *)
(* rolling buffer near its capacity, then more segments from either path.  *)
(***************************************************************************)
\* The connector after n segments: what n runs of 357-381 leave.
RECURSIVE Emitted(_)
Emitted(n) ==
  IF n = 0 THEN [log |-> <<>>, buffer |-> <<>>]
  ELSE LET before == Emitted(n - 1)
           text == [body |-> TextOf(n % 2), pad |-> FALSE]
       IN [log |-> Append(before.log,
                     [segment_number |-> n - 1, segment |-> text,
                      source |-> "realtime", frag |-> n % 2,
                      dedup_key |-> None,
                      previous_segments |-> PreviousSegments(before.buffer)]),
           buffer |-> BufferAppend(before.buffer, text, max_buffer_size)]

BufInit ==
  /\ source_kind = "fireflies"
  /\ FirefliesRest /\ DgInit /\ LtInit /\ MgrInit
  /\ \E n \in (max_buffer_size - 2)..max_buffer_size :
       /\ segment_number = n
       /\ emitted = Emitted(n).log
       /\ transcript_buffer = Emitted(n).buffer

\* 357-381 and 546-570: the segment is built, numbered and buffered.
EmitNext(source, k) ==
  /\ segment_number < max_buffer_size + MaxEmits
  /\ EmitSegment(source, k, None, [body |-> TextOf(k), pad |-> FALSE])
  /\ UNCHANGED <<sio, transport, is_connected, is_authenticated,
                 fireflies_transcript_id, connection_mode, polling_task,
                 last_sentence_index, processed_chunks, reconnect_attempts,
                 connPc, connArg, pollPc, discPc, closeCalled, closes,
                 afterClose, failRun, authHandled, authAttempts, afterAuth,
                 duplicateDropped, source_kind, dgVars, mgrVars, ltVars>>

BufNext == \E source \in {"realtime", "polling"}, k \in Frags : EmitNext(source, k)

BufSpec == BufInit /\ [][BufNext]_vars

(***************************************************************************)
(* The manager with its subscribers, the sources at rest.                  *)
(***************************************************************************)
MgrSpecInit ==
  /\ source_kind = "fireflies"
  /\ FirefliesInit
  /\ DgInit
  /\ LtInit
  /\ MgrInitOneLeft

MgrSpec == MgrSpecInit /\ [][MgrNext]_vars

(***************************************************************************)
(* FirefliesMeetingMonitor under the manager: start_monitoring and          *)
(* stop_monitoring called in any order, the loop task polling, its callback *)
(* _on_fireflies_meeting_found creating a session or failing.               *)
(***************************************************************************)
\* `meeting.get("id")` of the meetings a poll reports.
ActiveIds == {"t1", "t2", None}

\* `if transcript_id and transcript_id not in self.known_meetings` (696).
AlwaysNew(transcript_id, known_meetings) == Truthy(transcript_id)
IsNew(transcript_id, known_meetings) ==
  Truthy(transcript_id) /\ transcript_id \notin known_meetings

\* start_monitoring (662-669): nothing while is_monitoring; else the flag
\* and a new task for _monitor_loop.  Nothing is awaited.
StartMonitoring ==
  /\ monitor.starts < MaxStarts
  /\ IF monitor.is_monitoring
     THEN monitor' = [monitor EXCEPT !.starts = @ + 1]
     ELSE \E k \in 1..MaxLoops :
            /\ monitor.loop[k].at = "none"
            /\ \A j \in 1..(k - 1) : monitor.loop[j].at # "none"
            /\ monitor' = [monitor EXCEPT !.starts = @ + 1,
                                          !.is_monitoring = TRUE,
                                          !.task = k,
                                          !.loop[k].at = "poll"]
  /\ UNCHANGED <<sessions, created, websockets, segment_count, webhook_tasks,
                 endpoint, health, closed, received, bc, stopPc, path,
                 connector, cmd, start, speaker_stats>>
  /\ UNCHANGED <<ffVars, source_kind, dgVars, ltVars>>

\* stop_monitoring (671-682): the flag cleared and the task of _monitor_task
\* cancelled; CancelledError reaches the task where it is suspended.
StopMonitoring ==
  /\ monitor.task # 0
  /\ monitor' =
       [monitor EXCEPT
          !.is_monitoring = FALSE,
          !.loop = IF monitor.loop[monitor.task].at # "ended"
                   THEN [@ EXCEPT ![monitor.task].cancelled = TRUE]
                   ELSE @]
  /\ UNCHANGED <<sessions, created, websockets, segment_count, webhook_tasks,
                 endpoint, health, closed, received, bc, stopPc, path,
                 connector, cmd, start, speaker_stats>>
  /\ UNCHANGED <<ffVars, source_kind, dgVars, ltVars>>

\* `meetings = await service.get_active_meetings()` (690) returns, whatever
\* the service reports; an empty list (its answer to every failure, 163-165)
\* leads to the sleep of 707.
PollReturns(k, meetings) ==
  /\ monitor.loop[k].at = "poll"
  /\ ~monitor.loop[k].cancelled
  /\ monitor.polls < MaxPolls
  /\ monitor' = [monitor EXCEPT
                   !.polls = @ + 1,
                   !.loop[k] = [@ EXCEPT
                                  !.at = IF meetings = <<>> THEN "sleep"
                                         ELSE "for",
                                  !.rest = meetings]]
  /\ UNCHANGED <<sessions, created, websockets, segment_count, webhook_tasks,
                 endpoint, health, closed, received, bc, stopPc, path,
                 connector, cmd, start, speaker_stats>>
  /\ UNCHANGED <<ffVars, source_kind, dgVars, ltVars>>

\* One round of `for meeting in meetings` (692-705): a new id is recorded
\* and on_meeting_found invoked with the meeting.  The callback,
\* _on_fireflies_meeting_found (meeting_manager.py 123-141), stores a session
\* for the id (start_fireflies_meeting, 226-247) or raises before it does;
\* what it raises is logged (704-705).
MeetingFound(k, outcome) ==
  LET l == monitor.loop[k]
      transcript_id == Head(l.rest)
      after == [l EXCEPT !.rest = Tail(@),
                         !.at = IF Tail(l.rest) = <<>> THEN "sleep"
                                ELSE "for"]
  IN /\ l.at = "for"
     /\ IF IsNew(transcript_id, monitor.known_meetings)
        THEN /\ monitor' = [monitor EXCEPT
                              !.known_meetings = @ \cup {transcript_id},
                              !.found = Append(@, transcript_id),
                              !.loop[k] = after]
             /\ IF outcome = "ok"
                THEN \E m \in Meetings :
                       /\ FreshId(m, created)
                       /\ \A j \in Meetings :
                            (j = "m1" /\ m = "m2") => j \in created
                       /\ created' = created \cup {m}
                       /\ sessions' = sessions \cup {m}
                       /\ websockets' = [websockets EXCEPT ![m] = <<>>]
                       /\ segment_count' = [segment_count EXCEPT ![m] = 0]
                       /\ connector' =
                            [connector EXCEPT ![m] =
                               [at |-> "scheduled", tid |-> transcript_id,
                                segment_number |-> 0]]
                ELSE UNCHANGED <<created, sessions, websockets,
                                 segment_count, connector>>
        ELSE /\ outcome = "ok"
             /\ monitor' = [monitor EXCEPT !.loop[k] = after]
             /\ UNCHANGED <<created, sessions, websockets, segment_count,
                            connector>>
     /\ UNCHANGED <<webhook_tasks, endpoint, health, closed, received, bc,
                    stopPc, path, cmd, start, speaker_stats>>
     /\ UNCHANGED <<ffVars, source_kind, dgVars, ltVars>>

\* `await asyncio.sleep(self.poll_interval)` (707) returns and
\* `while self.is_monitoring` (688) is evaluated.
SleepEnds(k) ==
  /\ monitor.loop[k].at = "sleep"
  /\ ~monitor.loop[k].cancelled
  /\ monitor' = [monitor EXCEPT
                   !.loop[k].at = IF monitor.is_monitoring THEN "poll"
                                  ELSE "ended"]
  /\ UNCHANGED <<sessions, created, websockets, segment_count, webhook_tasks,
                 endpoint, health, closed, received, bc, stopPc, path,
                 connector, cmd, start, speaker_stats>>
  /\ UNCHANGED <<ffVars, source_kind, dgVars, ltVars>>

\* CancelledError raised where the task is suspended: in the poll or the
\* sleep, or in a callback that awaits; `except Exception` (704) does not
\* catch it, `except asyncio.CancelledError: break` (709-710) ends the loop.
LoopCancelled(k) ==
  /\ monitor.loop[k].at \in {"poll", "for", "sleep"}
  /\ monitor.loop[k].cancelled
  /\ monitor' = [monitor EXCEPT !.loop[k].at = "ended"]
  /\ UNCHANGED <<sessions, created, websockets, segment_count, webhook_tasks,
                 endpoint, health, closed, received, bc, stopPc, path,
                 connector, cmd, start, speaker_stats>>
  /\ UNCHANGED <<ffVars, source_kind, dgVars, ltVars>>

MonitorNext ==
  \/ StartMonitoring
  \/ StopMonitoring
  \/ \E k \in 1..MaxLoops, n \in 0..MaxActive :
       \E meetings \in [1..n -> ActiveIds] : PollReturns(k, meetings)
  \/ \E k \in 1..MaxLoops, outcome \in {"ok", "failed"} :
       MeetingFound(k, outcome)
  \/ \E k \in 1..MaxLoops : SleepEnds(k)
  \/ \E k \in 1..MaxLoops : LoopCancelled(k)

MonitorSpec == FairInit /\ [][MonitorNext]_vars

(***************************************************************************)
(* The registry with two sessions side by side, created by any of the      *)
(* three create calls, their subscribers all reading.                      *)
(***************************************************************************)
RegNext ==
  \/ \E m \in Meetings, tid \in TranscriptIds : StartMeeting(m, tid)
  \/ \E m \in Meetings : ConnectorRuns(m)
  \/ \E h \in Handles, m \in Meetings : RegisterWebsocket(h, m)
  \/ \E h \in Handles : UnregisterWebsocket(h)
  \/ \E b \in Slots, m \in Meetings : OnTranscript(b, m)
  \/ \E b \in Slots : SendCompletes(b)
  \/ \E m \in Meetings : StopMeeting(m)
  \/ StopServicesReturn
  \/ StopCloseReturns

RegSpec == Init /\ [][RegNext]_vars

(***************************************************************************)
(* Local sessions started through the endpoint, with and without a         *)
(* Deepgram key, beside subscribers and stop.                              *)
(***************************************************************************)
StartNext ==
  \/ \E m \in Meetings, settings_key \in {None, "", "key"},
          env_key \in {None, "", "key"} :
       StartLocalTranscription(m, settings_key, env_key)
  \/ \E m \in Meetings : ConnectorRuns(m)
  \/ \E h \in Handles, m \in Meetings : RegisterWebsocket(h, m)
  \/ \E h \in Handles : UnregisterWebsocket(h)
  \/ \E m \in Meetings : StopMeeting(m)
  \/ StopServicesReturn
  \/ StopCloseReturns

StartSpec == Init /\ [][StartNext]_vars

(***************************************************************************)
(* The counters of a session, its segments coming from several speakers.   *)
(***************************************************************************)
StatsNext ==
  \/ \E m \in Meetings, tid \in TranscriptIds : StartMeeting(m, tid)
  \/ \E m \in Meetings : ConnectorRuns(m)
  \/ \E h \in Handles, m \in Meetings : RegisterWebsocket(h, m)
  \/ \E b \in Slots, m \in Meetings, speaker \in Speakers :
       OnTranscriptFrom(b, m, speaker)
  \/ \E b \in Slots : SendCompletes(b)
  \/ \E m \in Meetings : StopMeeting(m)
  \/ StopServicesReturn
  \/ StopCloseReturns

StatsSpec == MgrSpecInit /\ [][StatsNext]_vars

(***************************************************************************)
(* Two stops of one session that overlap.                                  *)
(***************************************************************************)
OverlapNext ==
  \/ \E m \in Meetings, tid \in TranscriptIds : StartMeeting(m, tid)
  \/ \E m \in Meetings : ConnectorRuns(m)
  \/ \E h \in Handles, m \in Meetings : RegisterWebsocket(h, m)
  \/ \E h \in Handles : UnregisterWebsocket(h)
  \/ \E m \in Meetings : StopMeeting(m)
  \/ \E m \in Meetings : OverlappingStop(m)
  \/ StopServicesReturn
  \/ StopCloseReturns

OverlapSpec == MgrSpecInit /\ [][OverlapNext]_vars

(***************************************************************************)
(* Commands: one session and its subscribers, process_command beside       *)
(* subscribe, unsubscribe, failing clients and stop.                       *)
(***************************************************************************)
CmdNext ==
  \/ \E m \in Meetings, tid \in TranscriptIds : StartMeeting(m, tid)
  \/ \E h \in Handles, m \in Meetings : RegisterWebsocket(h, m)
  \/ \E h \in Handles : UnregisterWebsocket(h)
  \/ \E h \in Handles : ClientGone(h)
  \/ \E b \in AllSlots : SendCompletes(b)
  \/ \E m \in Meetings : StopMeeting(m)
  \/ StopServicesReturn
  \/ StopCloseReturns
  \/ \E m \in Meetings : ProcessCommand(m)
  \/ \E outcome \in CommandOutcomes : SendCommandEnds(outcome)
  \/ CommandBroadcastEnds

CmdSpec == MgrSpecInit /\ [][CmdNext]_vars

(***************************************************************************)
(* Properties of one connector (specification Spec).                       *)
(***************************************************************************)
EmittedSources == {emitted[i].source : i \in 1..Len(emitted)}

\* C1: the segment_number values of the segments passed to on_transcript,
\* in emission order, are exactly 0, 1, 2, ...: FirefliesService with
\* real-time events and polled sentences interleaved, and TranscriptionService.
C1_SegmentNumbersConsecutive ==
  \A i \in 1..Len(emitted) : emitted[i].segment_number = i - 1

\* Both paths of FirefliesService have emitted into one numbering.
C1_Witness ==
  /\ Len(emitted) = MaxSegments
  /\ {"realtime", "polling"} \subseteq EmittedSources

\* C2: at most one segment is emitted per non-empty chunk_id, and a dropped
\* duplicate leaves segment_number and the rolling buffer as they were: the
\* counter and the buffer always are those of the segments emitted.
C2_OneSegmentPerChunkId ==
  /\ \A i, j \in 1..Len(emitted) :
       (emitted[i].dedup_key # None /\ emitted[i].dedup_key = emitted[j].dedup_key)
         => i = j
  /\ segment_number = Len(emitted)
  /\ Len(transcript_buffer) <= Len(emitted)
  /\ \A i \in 1..Len(transcript_buffer) :
       transcript_buffer[i] =
         emitted[Len(emitted) - Len(transcript_buffer) + i].segment

\* A chunk_id came a second time and was dropped.
C2_Witness ==
  /\ duplicateDropped
  /\ \E i \in 1..Len(emitted) : emitted[i].dedup_key \in processed_chunks

\* C3: once disconnect() has been called the connector invokes no callback,
\* opens no transport and starts no polling.
C3_ClosedIsTerminal == closeCalled => afterClose = None

\* C4 as stated: three failed attempts in a row, without a close, leave the
\* connector in polling mode with its connect chain at rest.
C4_PollingAfterThreeFailures ==
  (failRun = max_reconnect_attempts /\ ~closeCalled)
    => (connection_mode = "polling" /\ connPc \in {"pollcb", "done"})

\* C4 amended: the connector never fails more than max_reconnect_attempts + 1
\* attempts in a row (the first one and max_reconnect_attempts reconnects);
\* after that many its connect chain is at rest and, unless it was closed, it
\* is in polling mode.
C4_PollingAfterReconnectsExhausted ==
  /\ failRun <= max_reconnect_attempts + 1
  /\ failRun = max_reconnect_attempts + 1
       => /\ connPc \in {"pollcb", "done"}
          /\ ~closeCalled => connection_mode = "polling"

C4_Witness ==
  /\ failRun = max_reconnect_attempts + 1
  /\ ~closeCalled
  /\ connection_mode = "polling"
  /\ pollPc.at = "fetching"

\* C5: no underlying sentence is emitted by the real-time path and again by
\* the polling path.
C5_NoRepeatAcrossPaths ==
  \A i, j \in 1..Len(emitted) :
    (emitted[i].source = "realtime" /\ emitted[j].source = "polling")
      => emitted[i].frag # emitted[j].frag

\* C12: when the owner's disconnect() has returned, which is all stop_meeting
\* does about the connector before it returns, the connect/reconnect chain
\* and the polling loop are over.
C12_NothingPendingAfterStop ==
  discPc["user"] = "returned" =>
    /\ connPc \in {"none", "done"}
    /\ pollPc.at = "none"

\* A string as its pieces: the body between its blanks.
Str(text) ==
  (IF text.pad THEN <<" ">> ELSE <<>>)
    \o (IF text.body = "" THEN <<>> ELSE <<text.body>>)
    \o (IF text.pad THEN <<" ">> ELSE <<>>)

\* " ".join(texts)
RECURSIVE Join(_)
Join(texts) ==
  IF texts = <<>> THEN <<>>
  ELSE IF Len(texts) = 1 THEN Str(texts[1])
  ELSE Str(texts[1]) \o <<" ">> \o Join(Tail(texts))

\* The full_transcript process_command hands to the automation (476-481):
\* taken from session.fireflies or session.transcription, "" otherwise.
FullTranscript ==
  IF source_kind = "fireflies" THEN Join(transcript_buffer)
  ELSE IF source_kind = "deepgram" THEN Join(transcript_buffer)
  ELSE <<>>

RECURSIVE FinalTexts(_)
FinalTexts(log) ==
  IF log = <<>> THEN <<>>
  ELSE (IF log[1].is_final THEN <<log[1].segment>> ELSE <<>>)
         \o FinalTexts(Tail(log))

\* C15: for every source kind the full_transcript of a command is the final
\* segment texts emitted so far, joined by single blanks.
C15_FullTranscriptIsAllFinalSegments ==
  FullTranscript =
    Join(IF source_kind = "local" THEN FinalTexts(lt_emitted)
         ELSE [i \in 1..Len(emitted) |-> emitted[i].segment])

\* C11: once stop has begun for a session, a fragment for it changes no
\* count of the session, is not forwarded and starts no broadcast.
C11_FragmentDuringStopIsDropped ==
  [][stopPc.pc \in {"services", "closing"} =>
       /\ segment_count'[stopPc.m] = segment_count[stopPc.m]
       /\ webhook_tasks'[stopPc.m] = webhook_tasks[stopPc.m]
       /\ \A b \in Slots : bc[b].pc = "idle" => bc'[b].pc = "idle"]_vars

\* C13: stop of an id the registry does not hold is answered with 404.
C13_StopUnknownIsNotFound ==
  stopPc.pc = "notfound" => stopPc.http = 404

\* C14: a status query never shows a session whose sources stop_meeting has
\* already stopped or whose subscribers it is closing.
C14_StatusNeverMidTeardown ==
  stopPc.pc = "closing" => MeetingStatus(stopPc.m) = Absent

\* C18: the step of _on_transcript that counts a segment goes on to the
\* broadcast at once, whatever the state of the forwards: with subscribers
\* listed the first send of this segment is under way after the step.
C18_BroadcastDoesNotAwaitForward ==
  [][\A m \in Meetings :
       (segment_count'[m] = segment_count[m] + 1 /\ websockets[m] # <<>>) =>
         \E b \in Slots : /\ bc[b].pc = "idle"
                           /\ bc'[b].pc = "sending"
                           /\ bc'[b].m = m
                           /\ bc'[b].ev = segment_count'[m]]_vars

\* The forward of the first segment has failed, that of the second has not
\* ended, and a subscriber has received both segments.
C18_Witness ==
  \E m \in Meetings, h \in Handles :
    /\ webhook_tasks[m] = <<"failed", "pending">>
    /\ received[h] = <<1, 2>>

\* C19: the step that registers a session hands out an id no earlier create
\* returned; after it the status of the session is there with segment_count
\* 0 and no subscribers, and the task of its source is created, not run.
C19_CreateRegistersFreshSession ==
  [][\A m \in Meetings :
       (m \notin sessions /\ m \in sessions') =>
         /\ m \notin created
         /\ MeetingStatus(m)' = [found |-> TRUE, meeting_id |-> m,
                                 segment_count |-> 0, active_connections |-> 0]
         /\ connector'[m].at = "scheduled"]_vars

\* A second session has been created by start_local_transcription while the
\* first one is served; its source has not run yet.
C19_Witness ==
  /\ source_kind = "local"
  /\ created = {"m1", "m2"}
  /\ segment_count["m1"] > 0
  /\ MeetingStatus("m2") = [found |-> TRUE, meeting_id |-> "m2",
                            segment_count |-> 0, active_connections |-> 0]
  /\ connector["m2"].at = "scheduled"

\* What a step does to a session: its counts, forwards, subscribers, source,
\* its place in the registry, or a delivery to one of its subscribers.
Touched(m) ==
  \/ segment_count'[m] # segment_count[m]
  \/ webhook_tasks'[m] # webhook_tasks[m]
  \/ websockets'[m] # websockets[m]
  \/ connector'[m] # connector[m]
  \/ (m \in sessions') # (m \in sessions)
  \/ \E h \in Handles : path'[h] = m /\ received'[h] # received[h]

\* C20: no step touches two sessions, and an event is delivered to a
\* subscriber only by a broadcast of the session its connection names.
C20_SessionsIndependent ==
  [][/\ \A a, b \in Meetings : a # b => ~(Touched(a) /\ Touched(b))
     /\ \A h \in Handles :
          received'[h] # received[h] =>
            \E b \in Slots : /\ bc[b].pc = "sending"
                              /\ bc[b].cur = h
                              /\ bc[b].m = path[h]
                              /\ received'[h] = Append(received[h], bc[b].ev)
    ]_vars

\* Two live sessions on the same transcript id, each with a subscriber that
\* has received a segment of its own session.
C20_Witness ==
  /\ sessions = {"m1", "m2"}
  /\ connector["m1"].tid = connector["m2"].tid
  /\ \E h1, h2 \in Handles :
       /\ path[h1] = "m1" /\ path[h2] = "m2"
       /\ received[h1] # <<>> /\ received[h2] # <<>>
       /\ segment_count["m1"] # segment_count["m2"]

\* C16: when the automation has answered a command for a session that is
\* there, process_command returns that answer after one broadcast of it; for
\* an id the registry does not hold it returns the not-found message, with
\* nothing sent and nothing broadcast.
C16_ResponseBroadcastAndReturned ==
  cmd.pc \in {"returned", "raised"} =>
    IF ~cmd.found
    THEN cmd.pc = "returned" /\ cmd.ret = "not_found"
         /\ ~cmd.sent /\ cmd.broadcasts = 0
    ELSE (cmd.outcome = "ok" /\ cmd.live) =>
           /\ cmd.pc = "returned"
           /\ cmd.ret = "response"
           /\ cmd.broadcasts = 1

\* C17: a command whose request timed out is answered with the fallback
\* message, by send_command and so by process_command.
C17_TimeoutGivesFallback ==
  (cmd.pc \in {"returned", "raised"} /\ cmd.outcome = "timeout") =>
    cmd.pc = "returned" /\ cmd.ret = "timeout_fallback"

\* C21: an interim fragment (is_final false) gives no segment and uses up no
\* number: every segment the local source hands on is final, and its
\* counter is the number of final fragments so far.
C21_InterimFragmentsEmitNothing ==
  /\ \A i \in 1..Len(lt_emitted) : lt_emitted[i].is_final
  /\ lt_segment_count = Len(FinalTexts(lt_emitted))

\* C22: send_audio on a source that is not streaming gives its caller a
\* NotConnected outcome and puts nothing on the transport.
C22_SendAudioNotConnected ==
  (audio.called /\ ~audio.ready) =>
    audio.result = "NotConnected" /\ ~audio.sent

\* C24: stop() of the local source beside its start(): stop only ever waits
\* for a task it has cancelled, and once both calls are over the websocket,
\* the audio stream and the audio device are released and neither task runs.
C24_StopBesideStartReleasesAll ==
  /\ lt_stop = "await_send" => lt_send \in {"cancelled", "done"}
  /\ lt_stop = "await_recv" => lt_recv \in {"cancelled", "done"}
  /\ (ltPc = "idle" /\ lt_stop = "returned") =>
       /\ lt_websocket = "none"
       /\ lt_audio_stream = "none"
       /\ lt_pyaudio = "none"
       /\ lt_send \in {"none", "done"}
       /\ lt_recv \in {"none", "done"}

\* stop() was called while the tasks ran, after a segment, and has returned
\* while start() is still in its own cleanup.
C24_Witness ==
  /\ lt_stop = "returned"
  /\ ltPc = "closing"
  /\ lt_emitted # <<>>
  /\ lt_websocket = "none"

\* C23: a second disconnect() of the owner, made after the first has
\* returned, leaves the connector as the first left it, with the client
\* gone, no transport up and no polling loop.
C23_SecondCloseChangesNothing ==
  Len(closes) = 2 =>
    /\ closes[2] = closes[1]
    /\ closes[2].transport # "up"
    /\ ~closes[2].polling

\* C25: a start of a local session without a configured Deepgram key is
\* answered with 400, and neither a session nor a connector comes of it.
C25_MissingKeyIs400 ==
  [][(start' # start /\ ~Truthy(start'.api_key)) =>
       /\ start'.http = 400
       /\ UNCHANGED <<sessions, created, connector>>]_vars

\* C26: a stop removes the session only when its source has stopped and
\* every subscriber the session holds has been closed.
C26_RemovedAfterSourceAndSubscribers ==
  [][\A m \in Meetings :
       (m \in sessions /\ m \notin sessions') =>
         /\ connector'[m].at = "stopped"
         /\ \A h \in Range(websockets'[m]) : h \in closed']_vars

\* C27: an established connection that is lost, with no disconnect() called,
\* leads to streaming again or to the polling loop (or to a disconnect()).
C27_LostLeadsToStreamingOrPolling ==
  (transport = "failed" /\ ~closeCalled)
    ~> \/ transport = "up" /\ connPc = "wait"
       \/ pollPc.at # "none"
       \/ closeCalled

\* C28: the sentence indices of the segments the polling path emits are
\* strictly increasing; a segment is emitted only for an index above the
\* last one seen, which becomes the last one seen and never decreases.
PolledIndices(log) ==
  LET RECURSIVE Pick(_)
      Pick(l) == IF l = <<>> THEN <<>>
                 ELSE IF Head(l).source = "polling"
                      THEN <<Head(l).frag>> \o Pick(Tail(l))
                      ELSE Pick(Tail(l))
  IN Pick(log)

C28_PolledIndicesIncrease ==
  [][/\ last_sentence_index' >= last_sentence_index
     /\ LET idx == PolledIndices(emitted')
        IN /\ \A i, j \in 1..Len(idx) : i < j => idx[i] < idx[j]
           /\ (Len(idx) > Len(PolledIndices(emitted))) =>
                /\ idx[Len(idx)] > last_sentence_index
                /\ idx[Len(idx)] = last_sentence_index']_vars

C28_Witness ==
  /\ PolledIndices(emitted) = <<1, 2>>
  /\ last_sentence_index = 2
  /\ pollPc.at = "proc"

\* C29: every step that takes the connector to another state (connecting,
\* streaming, reconnecting, polling, closed) is a step in which
\* on_connection_status is invoked.
InvokesStatus ==
  \/ OnAuthSuccess
  \/ OnConnectionEstablished
  \/ OnConnectionError
  \/ OnAuthFailed
  \/ connPc' = "pollcb" /\ connPc # "pollcb"

C29_TransitionInvokesStatus ==
  [][(\/ connPc' = "connecting" /\ connPc # "connecting"
      \/ connPc' = "sleep" /\ connPc # "sleep"
      \/ connection_mode' # connection_mode)
       => InvokesStatus]_vars

\* C30: each subscriber receives the transcript_update events of its
\* session in the order the source handed them on, that is in increasing
\* segment order.
C30_SubscriberSeesEmissionOrder ==
  \A h \in Handles :
    \A i, j \in 1..Len(received[h]) : i < j => received[h][i] < received[h][j]

\* C31: the connector waits on an established connection with its reconnect
\* counter at 0; the counter goes up by one, and only as a retry is
\* scheduled; and polling is entered only with the counter at its maximum.
C31_AttemptsResetOnStreaming ==
  [][/\ connPc' = "wait" => reconnect_attempts' = 0
     /\ reconnect_attempts' > reconnect_attempts =>
          /\ reconnect_attempts' = reconnect_attempts + 1 \/ reconnect_attempts' = 1
          /\ connPc' = "sleep"
     /\ (connPc' = "pollcb" /\ connPc # "pollcb") =>
          reconnect_attempts' = max_reconnect_attempts]_vars

C31_Witness ==
  /\ \E i \in 1..Len(emitted) : emitted[i].source = "realtime"
  /\ failRun = max_reconnect_attempts
  /\ connection_mode = "polling"
  /\ pollPc.at = "fetching"
  /\ ~closeCalled

\* C32: the rolling buffer holds the texts of the last min(n, capacity)
\* segments emitted, in order, and each segment's context holds the texts of
\* the up to ContextWindow segments emitted just before it.
C32_BufferIsLastSegments ==
  LET n == Len(emitted)
      held == IF n < max_buffer_size THEN n ELSE max_buffer_size
  IN /\ Len(transcript_buffer) = held
     /\ \A i \in 1..held : transcript_buffer[i] = emitted[n - held + i].segment
     /\ \A k \in 1..n :
          LET c == IF k - 1 < ContextWindow THEN k - 1 ELSE ContextWindow
          IN /\ Len(emitted[k].previous_segments) = c
             /\ \A i \in 1..c :
                  emitted[k].previous_segments[i] = emitted[k - 1 - c + i].segment

C32_Witness ==
  /\ Len(emitted) = max_buffer_size + MaxEmits
  /\ Len(transcript_buffer) = max_buffer_size
  /\ emitted[Len(emitted)].source = "polling"

\* C33: a polling loop runs only in polling mode, and then no Socket.IO
\* connection is open or being attempted.
C33_PollingExcludesStreaming ==
  pollPc.at # "none" =>
    /\ connection_mode = "polling"
    /\ transport # "up"
    /\ connPc \notin {"scheduled", "connecting", "wait", "sleep"}

\* C34: a poll whose list begins with a sentence of non-empty text that the
\* polling path has not emitted yet emits that sentence.
C34_NoPolledSentenceLost ==
  [][\A l \in PollLists :
       (/\ PollFetchSentences(l)
        /\ ~Empty(Strip(l[1].text))
        /\ \A i \in 1..Len(emitted) :
             emitted[i].source = "polling" => emitted[i].frag # l[1].index)
         => /\ Len(emitted') = Len(emitted) + 1
            /\ emitted'[Len(emitted')].frag = l[1].index]_vars

SumOf(stats) ==
  LET RECURSIVE Sum(_)
      Sum(S) == IF S = {} THEN 0
                ELSE LET x == CHOOSE x \in S : TRUE
                     IN stats[x] + Sum(S \ {x})
  IN Sum(DOMAIN stats)

C36_CountsAgree ==
  [][/\ \A m \in sessions' :
          /\ segment_count'[m] = SumOf(speaker_stats'[m])
          /\ segment_count'[m] = connector'[m].segment_number
     /\ \A m \in Meetings :
          /\ segment_count'[m] >= segment_count[m]
          /\ \A x \in Speakers : speaker_stats'[m][x] >= speaker_stats[m][x]]_vars

C36_Witness ==
  \E m \in sessions :
    /\ segment_count[m] = MaxEvents
    /\ speaker_stats[m]["A"] = 1
    /\ speaker_stats[m]["unknown"] = 1

\* C37: a stop of a session that another stop of the same session overlaps
\* does not raise: it is answered as a stop that went through.
C37_OverlappingStopsDoNotRaise ==
  stopPc.pc # "raised" /\ stopPc.http # 500

\* C38: a broadcast that ends does not raise: every handle it recorded as
\* failed, the one of the send it was awaiting included, is still in the
\* list of subscribers when `session.websockets.remove(ws)` is reached.
C38_BroadcastNeverRaises ==
  [][\A b \in Slots :
       (bc[b].pc = "sending" /\ bc'[b].pc = "idle") =>
         LET recorded == IF health[bc[b].cur] = "broken"
                         THEN Append(bc[b].disconnected, bc[b].cur)
                         ELSE bc[b].disconnected
         IN ~RemoveDisconnected(websockets[bc[b].m], recorded).raised]_vars

\* C39: on_meeting_found is invoked at most once with each transcript id
\* and at most one session is stored for it, whatever the polls report and
\* whether or not the callback raised; a call of start_monitoring made while
\* the monitor is monitoring leaves the loop tasks as they are.
C39_FoundOncePerMeeting ==
  [][/\ \A tid \in ActiveIds \ {None} :
          /\ Cardinality({j \in 1..Len(monitor'.found) :
                            monitor'.found[j] = tid}) <= 1
          /\ Cardinality({m \in created' : connector'[m].tid = tid}) <= 1
     /\ (monitor.is_monitoring /\ monitor'.starts = monitor.starts + 1) =>
          /\ monitor'.loop = monitor.loop
          /\ monitor'.task = monitor.task]_vars

\* The callback of t1 failed, a later poll reports t1 again, and a second
\* start_monitoring has been called while monitoring.
C39_Witness ==
  /\ monitor.found = <<"t1">>
  /\ created = {}
  /\ monitor.polls = 2
  /\ \E k \in 1..MaxLoops :
       monitor.loop[k].at = "for" /\ monitor.loop[k].rest = <<"t1">>
  /\ monitor.starts = 2
  /\ monitor.is_monitoring
  /\ monitor.loop[2].at = "none"

\* C6: once an authentication failure has been handled the connector is
\* disconnected, reconnect_attempts is what it was when the failure arrived,
\* and no transport is opened and no polling started any more.
C6_AuthFailureIsTerminal ==
  authHandled =>
    /\ connection_mode = "disconnected"
    /\ ~is_connected
    /\ reconnect_attempts = authAttempts
    /\ afterAuth = None

(***************************************************************************)
(* Properties of the manager (specification MgrSpec).                      *)
(***************************************************************************)
\* The broadcast in slot b ends with this step.
Completes(b) == bc[b].pc = "sending" /\ bc'[b].pc = "idle"

\* The handles whose send raised in the broadcast of slot b, the send it is
\* awaiting included.
Failed(b) ==
  Range(bc[b].disconnected)
    \cup (IF bc[b].pc = "sending" /\ health[bc[b].cur] = "broken"
          THEN {bc[b].cur} ELSE {})

\* The handles the broadcast of slot b owes its event: registered when it
\* began, not unregistered by their endpoint since, and in working order.
Owed(b) ==
  {h \in bc[b].snap \ (Failed(b) \cup bc[b].unsub) : health[h] = "ok"}

Count(seq, x) == Cardinality({k \in 1..Len(seq) : seq[k] = x})

\* C7: when stop_meeting has returned, the status of the session is absent
\* and every handle that was registered when the stop began has been closed;
\* a handle whose own endpoint unregistered it meanwhile is not asked for.
C7_StopClosesEverySubscriber ==
  stopPc.pc = "done" =>
    /\ MeetingStatus(stopPc.m) = Absent
    /\ \A h \in stopPc.snap : h \in closed \/ endpoint[h] = "done"

\* C8: a broadcast in which exactly one send raised has, when it ends, sent
\* its event to every other handle it owed it, and has left the list of
\* subscribers without the failing handle and with the others.
C8_OneFailureSparesTheOthers ==
  [][\A b \in Slots :
       (Completes(b) /\ Cardinality(Failed(b)) = 1) =>
         /\ \A h \in Owed(b) :
              /\ bc[b].ev \in Range(received'[h])
              /\ h \in Range(websockets'[bc[b].m])
         /\ Failed(b) \cap Range(websockets'[bc[b].m]) = {}]_vars

\* C9: no _on_transcript coroutine of a fragment that came after a handle
\* hung is parked on a send to a hung handle while a working subscriber has
\* not got that fragment (a parked send never returns, so it never will).
C9_HungSendDoesNotStall ==
  \A b \in Slots :
    (bc[b].pc = "sending" /\ bc[b].late /\ health[bc[b].cur] = "hung") =>
      \A h \in Owed(b) \cap Range(websockets[bc[b].m]) :
        bc[b].ev \in Range(received[h])

\* C10: a broadcast, when it ends, has sent its event exactly once to every
\* handle that was registered when it began, did not fail and was not
\* unregistered meanwhile.
C10_BroadcastOverSnapshot ==
  [][\A b \in Slots :
       Completes(b) =>
         \A h \in Owed(b) : Count(received'[h], bc[b].ev) = 1]_vars
=============================================================================
